---- MODULE Spec2Model ----
(***************************************************************************)
(* Match-event aggregation engine of PostMatchReport (src/ETL/transformers *)
(* and the grid classification of src/Visual/heatmap_visualizations.py).   *)
(*                                                                         *)
(* A DataFrame is a sequence of rows; the position of a row is its index   *)
(* label (pandas RangeIndex, shifted to start at 1).  A filtered frame is  *)
(* the set of index labels it keeps.  Coordinates are fixed-point numbers  *)
(* in hundredths of a metre, so that the factor 1.05 is 105 and 0.68 is 68 *)
(* on integer raw inputs.  NaN is a missing number, None a missing id.     *)
(* The match clock is kept in seconds, so that second / 60.0 is exact.     *)
(***************************************************************************)
EXTENDS Integers, Sequences, FiniteSets, TLC

VARIABLES
    match_centre,    \* whoscored_data['match_centre']: [success, present, events]
    all_players_df,  \* PlayerProcessor.all_players_df (the roster)
    events_df,       \* EventProcessor.events_df: [isNone, rows]
    pc,              \* "new" before MatchProcessor.__init__, "ready" after
    ret,             \* what the last operation returned
    shots_df,        \* the shots_df argument of create_cumulative_xg
    cache,           \* DataLoader.cache_dir: the whoscored_<id>.json files
    extractor_calls, \* calls of WhoScoredExtractor.extract_all_sections
    data,            \* MatchDatabaseManager.data
    database_file    \* the file at MatchDatabaseManager.database_path

\* the objects beside the MatchProcessor
outside == <<shots_df, cache, extractor_calls, data, database_file>>

vars == <<match_centre, all_players_df, events_df, pc, ret, outside>>

(***************************************************************************)
(* Bounds of the model.                                                    *)
(***************************************************************************)
MaxEvents == 4
MaxCoordEvents == 2
MaxTouches == 7
MaxNormEvents == 3
MaxFrameEvents == 2
MaxTeamEvents == 3
MaxShots == 2
MaxCalls == 3
MaxMatches == 2

(***************************************************************************)
(* Values.                                                                 *)
(***************************************************************************)
NaN == -1
None == 0
HomeId == 1
AwayId == 2
OtherId == 3

Min(S) == CHOOSE m \in S : \A o \in S : m <= o

RawEvent(team, player, type, outcome, quals, x, y, ex, ey) ==
    [teamId |-> team, playerId |-> player, type |-> type,
     outcomeType |-> outcome, qualifiers |-> quals,
     x |-> x, y |-> y, endX |-> ex, endY |-> ey,
     period |-> 1, minute |-> 0, second |-> 0]

Player(id, team, first) ==
    [player_id |-> id, team_id |-> team, is_first_eleven |-> first]

NoneDF == [isNone |-> TRUE, rows |-> <<>>]
DataFrame(rows) == [isNone |-> FALSE, rows |-> rows]
NoRet == [op |-> "none"]

\* no shots table, no DataLoader and no MatchDatabaseManager in use
NoFiles == <<>>
NoLeagues == [leagues |-> <<>>]
OutsideUnused ==
    /\ shots_df = NoneDF
    /\ cache = NoFiles
    /\ extractor_calls = 0
    /\ data = NoLeagues
    /\ database_file = NoLeagues

(***************************************************************************)
(* EventProcessor: normalisation.                                          *)
(***************************************************************************)
\* the x factor applied a second time
ScaleXTwice(v) == IF v = NaN THEN NaN ELSE (v * 105 * 105) \div 100

ScaleX(v) == IF v = NaN THEN NaN ELSE v * 105
ScaleY(v) == IF v = NaN THEN NaN ELSE v * 68

\* a qualifier is [type, value]; Absent stands for a qualifier without value.
\* An entry that is no dict, has no 'type' or no displayName has the type "".
Absent == "absent"
Qualifier(type, value) == [type |-> type, value |-> value]

\* an event without the key 'qualifiers' (NaN in the column), and an event
\* whose 'qualifiers' is something else than a list (None, a string, a dict)
MissingQualifiers == <<Qualifier("", "missing")>>
NotAList == <<Qualifier("", "not a list")>>

\* the first qualifier of a type kept instead of the last
RECURSIVE FirstWriteWins(_)
FirstWriteWins(qualifiers) ==
    IF qualifiers \in {MissingQualifiers, NotAList} THEN <<>>
    ELSE IF qualifiers = <<>> THEN <<>>
    ELSE LET q == Head(qualifiers)
             result == FirstWriteWins(Tail(qualifiers))
             others == SelectSeq(result, LAMBDA e : e.type # q.type)
             q_value == IF q.value = Absent THEN "True" ELSE q.value
         IN IF q.type = "" THEN result
            ELSE <<[type |-> q.type, value |-> q_value]>> \o others

RECURSIVE _process_qualifiers(_)
_process_qualifiers(qualifiers) ==
    IF qualifiers \in {MissingQualifiers, NotAList} THEN <<>>
    ELSE IF qualifiers = <<>> THEN <<>>
    ELSE LET n == Len(qualifiers)
             q == qualifiers[n]
             result == _process_qualifiers(SubSeq(qualifiers, 1, n - 1))
             others == SelectSeq(result, LAMBDA e : e.type # q.type)
             q_value == IF q.value = Absent THEN "True" ELSE q.value
         IN IF q.type = "" THEN result
            ELSE Append(others, [type |-> q.type, value |-> q_value])

InDict(qualifiers_dict, name) ==
    \E k \in DOMAIN qualifiers_dict : qualifiers_dict[k].type = name

\* the square of df['distance'], NaN when a coordinate is missing
DistanceSq(x, y, endX, endY) ==
    IF NaN \in {x, y, endX, endY} THEN NaN
    ELSE (endX - x) * (endX - x) + (endY - y) * (endY - y)

IsProgressive(x, endX) == x # NaN /\ endX # NaN /\ endX - x > 1000

\* float(v) of a qualifier value in hundredths; float(True) is 1.0 and a
\* value outside the domain is no number
Floats == [v \in {"0.25", "0.5", "True"} |->
              IF v = "0.25" THEN 25 ELSE IF v = "0.5" THEN 50 ELSE 100]

DictGet(qualifiers_dict, name) ==
    LET k == CHOOSE k \in DOMAIN qualifiers_dict :
                 qualifiers_dict[k].type = name
    IN qualifiers_dict[k].value

Xg(qualifiers_dict) ==
    IF InDict(qualifiers_dict, "xG")
    THEN Floats[DictGet(qualifiers_dict, "xG")]
    ELSE 0

HasColumn(events, column) == \E k \in DOMAIN events : events[k][column] # NaN

\* the exception _create_events_dataframe raises on a non-empty list
NoError == "none"
NormalizeError(events) ==
    IF \A k \in DOMAIN events : events[k].qualifiers = MissingQualifiers
       THEN "KeyError"
       ELSE IF \E k \in DOMAIN events :
                  LET qualifiers_dict == _process_qualifiers(events[k].qualifiers)
                  IN /\ InDict(qualifiers_dict, "xG")
                     /\ DictGet(qualifiers_dict, "xG") \notin DOMAIN Floats
       THEN "ValueError"
       ELSE IF ~(/\ HasColumn(events, "x") /\ HasColumn(events, "y")
                 /\ HasColumn(events, "endX") /\ HasColumn(events, "endY"))
       THEN "KeyError"
       ELSE NoError

\* every period taken as 45 minutes long
BaseOfHalves(period_value) ==
    IF period_value \in 1..5 THEN (period_value - 1) * 45 ELSE 0

BaseMinutes(period_value) ==
    CASE period_value = 2 -> 45
      [] period_value = 3 -> 90
      [] period_value = 4 -> 105
      [] period_value = 5 -> 120
      [] OTHER -> 0

\* df['cumulative_mins'] in seconds
_calculate_cumulative_minutes(events) ==
    IF ~HasColumn(events, "minute") \/ ~HasColumn(events, "second")
       THEN [k \in DOMAIN events |-> 0]
       ELSE [k \in DOMAIN events |->
                LET row == events[k]
                    period_value == IF row.period = NaN THEN 1 ELSE row.period
                IN IF row.minute = NaN \/ row.second = NaN THEN NaN
                   ELSE BaseMinutes(period_value) * 60 + row.minute * 60
                            + row.second]

NormalizeRow(e) ==
    LET qualifiers_dict == _process_qualifiers(e.qualifiers)
    IN [teamId |-> e.teamId, playerId |-> e.playerId,
        x |-> ScaleX(e.x), y |-> ScaleY(e.y),
        endX |-> ScaleX(e.endX), endY |-> ScaleY(e.endY),
        type_display |-> e.type,
        outcome_display |-> e.outcomeType,
        is_successful |-> (e.outcomeType = "Successful"),
        qualifiers_dict |-> qualifiers_dict,
        is_key_pass |-> InDict(qualifiers_dict, "KeyPass"),
        is_assist |-> InDict(qualifiers_dict, "Assist"),
        is_goal |-> InDict(qualifiers_dict, "Goal"),
        is_own_goal |-> InDict(qualifiers_dict, "OwnGoal"),
        xg |-> Xg(qualifiers_dict),
        cumulative_mins |-> 0,
        distance_sq |-> DistanceSq(ScaleX(e.x), ScaleY(e.y),
                                   ScaleX(e.endX), ScaleY(e.endY)),
        is_progressive |-> IsProgressive(ScaleX(e.x), ScaleX(e.endX))]

\* the rows in the opposite order
ReversedDataframe(events) ==
    IF events = <<>> THEN DataFrame(<<>>)
    ELSE DataFrame([k \in 1..Len(events) |->
                      [NormalizeRow(events[Len(events) + 1 - k]) EXCEPT
                          !.cumulative_mins =
                              _calculate_cumulative_minutes(events)
                                  [Len(events) + 1 - k]]])

\* the table of a list that NormalizeError lets through
_create_events_dataframe(events) ==
    IF events = <<>> THEN DataFrame(<<>>)
    ELSE DataFrame([k \in 1..Len(events) |->
                      [NormalizeRow(events[k]) EXCEPT
                          !.cumulative_mins =
                              _calculate_cumulative_minutes(events)[k]]])

EventProcessor_init(events_data) ==
    IF events_data.present THEN _create_events_dataframe(events_data.events)
    ELSE NoneDF

Unavailable(df) == df.isNone \/ df.rows = <<>>

\* the rows of a frame cut out of the table, under their index labels
Frame(rows, index) == [i \in index |-> rows[i]]
EmptyFrame == <<>>

(***************************************************************************)
(* EventProcessor: pass queries.                                           *)
(***************************************************************************)
ReceiverTypes == {"Pass", "TakeOn", "Shot", "Carry"}

_identify_receivers(rows, idx) ==
    LET next_events == {j \in (idx + 1)..Len(rows) :
                            /\ rows[j].teamId = rows[idx].teamId
                            /\ rows[j].type_display \in ReceiverTypes}
    IN IF next_events = {} THEN None ELSE rows[Min(next_events)].playerId

get_passes(df, team_id, successful_only) ==
    IF Unavailable(df) THEN [receiver |-> <<>>, frame |-> EmptyFrame]
    ELSE LET rows == df.rows
             passes == {i \in DOMAIN rows :
                           /\ rows[i].type_display = "Pass"
                           /\ (team_id # None => rows[i].teamId = team_id)
                           /\ (successful_only => rows[i].is_successful)}
         IN [receiver |-> [i \in passes |-> _identify_receivers(rows, i)],
             frame |-> Frame(rows, passes)]

get_shots(df, team_id) ==
    IF Unavailable(df) THEN EmptyFrame
    ELSE Frame(df.rows, {i \in DOMAIN df.rows :
                            /\ df.rows[i].type_display = "Shot"
                            /\ (team_id # None => df.rows[i].teamId = team_id)})

TypeFilter(df, team_id, types) ==
    IF Unavailable(df) THEN EmptyFrame
    ELSE Frame(df.rows, {i \in DOMAIN df.rows :
                            /\ df.rows[i].type_display \in types
                            /\ (team_id # None => df.rows[i].teamId = team_id)})

get_defensive_actions(df, team_id) ==
    TypeFilter(df, team_id, {"Tackle", "Interception", "Clearance",
                             "BlockedPass", "Challenge"})

get_carries(df, team_id) == TypeFilter(df, team_id, {"Carry", "TakeOn"})

Between(v, low, high) == v # NaN /\ v >= low /\ v <= high

InZoneNamed(row, zone) ==
    CASE zone = "defensive_third" -> row.x # NaN /\ row.x <= 3500
      [] zone = "middle_third" -> row.x # NaN /\ row.x > 3500 /\ row.x <= 7000
      [] zone = "attacking_third" -> row.x # NaN /\ row.x > 7000
      [] zone = "zone14" ->
            Between(row.x, 7000, 8750) /\ Between(row.y, 2040, 4760)
      [] zone = "left_half_space" ->
            Between(row.x, 7000, 8750) /\ Between(row.y, 1020, 2720)
      [] zone = "right_half_space" ->
            Between(row.x, 7000, 8750) /\ Between(row.y, 4080, 5780)
      [] zone = "penalty_box" ->
            row.x # NaN /\ row.x >= 8850 /\ Between(row.y, 1380, 5420)
      [] OTHER -> TRUE

get_events_by_zone(df, zone, team_id) ==
    IF Unavailable(df) THEN EmptyFrame
    ELSE Frame(df.rows, {i \in DOMAIN df.rows :
                            /\ (team_id # None => df.rows[i].teamId = team_id)
                            /\ InZoneNamed(df.rows[i], zone)})

\* "For now, return empty DataFrames", whatever the arguments
create_pass_network_data(df, team_id, starting_xi_only) ==
    [positions |-> EmptyFrame, connections |-> {}]

(***************************************************************************)
(* PlayerProcessor: pass network.                                          *)
(***************************************************************************)
get_starting_xi(players, team_id) ==
    {p \in players : p.is_first_eleven /\ p.team_id = team_id}

\* pandas "!=" on a float column: a NaN differs from everything
NotEqual(a, b) == a = None \/ b = None \/ a # b

\* the scan without the team filter
AnyTeamReceiver(rows, idx, team_id) ==
    LET next_events == {j \in (idx + 1)..Len(rows) :
                            NotEqual(rows[j].playerId, rows[idx].playerId)}
    IN IF next_events = {} THEN None ELSE rows[Min(next_events)].playerId

NextTouchReceiver(rows, idx, team_id) ==
    LET next_events == {j \in (idx + 1)..Len(rows) :
                            /\ rows[j].teamId = team_id
                            /\ NotEqual(rows[j].playerId, rows[idx].playerId)}
    IN IF next_events = {} THEN None ELSE rows[Min(next_events)].playerId

SuccessfulPasses(rows, team_id) ==
    {i \in DOMAIN rows : /\ rows[i].teamId = team_id
                         /\ rows[i].type_display = "Pass"
                         /\ rows[i].is_successful}

PairMin(a, b) == IF a <= b THEN a ELSE b
PairMax(a, b) == IF a >= b THEN a ELSE b

\* the pair kept in pass direction
DirectedKey(rows, receiver, i) == <<rows[i].playerId, receiver[i]>>

PairKey(rows, receiver, i) ==
    <<PairMin(rows[i].playerId, receiver[i]),
      PairMax(rows[i].playerId, receiver[i])>>

Aggregate(rows, receiver, kept) ==
    {[pos_min |-> k[1], pos_max |-> k[2],
      pass_count |-> Cardinality({i \in kept : PairKey(rows, receiver, i) = k})] :
        k \in {PairKey(rows, receiver, i) : i \in kept}}

\* the threshold taken strictly
FilterAboveMinPasses(connections, min_passes) ==
    {c \in connections : c.pass_count > min_passes}

FilterMinPasses(connections, min_passes) ==
    {c \in connections : c.pass_count >= min_passes}

EmptyNetwork == [receiver |-> <<>>, kept |-> {}, connections |-> {}]

RECURSIVE SumOver(_, _)
SumOver(f, S) ==
    IF S = {} THEN 0
    ELSE LET i == CHOOSE o \in S : TRUE IN f[i] + SumOver(f, S \ {i})

\* Series.mean(): the missing values are skipped, the mean of none is NaN
Mean(f, S) ==
    LET present == {i \in S : f[i] # NaN}
    IN IF present = {} THEN [num |-> NaN, den |-> 1]
       ELSE [num |-> SumOver(f, present), den |-> Cardinality(present)]

AveragePositions(rows, passes) ==
    [p \in {rows[i].playerId : i \in passes} |->
        LET own == {i \in passes : rows[i].playerId = p}
        IN [x |-> Mean([i \in own |-> rows[i].x], own),
            y |-> Mean([i \in own |-> rows[i].y], own),
            count |-> Cardinality(own)]]

\* twice Series.median(): the missing values are skipped
Median2(f, S) ==
    LET present == {i \in S : f[i] # NaN}
        n == Cardinality(present)
        sorted == CHOOSE s \in [1..n -> present] :
                      /\ \A a, b \in 1..n : a # b => s[a] # s[b]
                      /\ \A a, b \in 1..n : a < b => f[s[a]] <= f[s[b]]
    IN IF n = 0 THEN NaN
       ELSE IF n % 2 = 1 THEN 2 * f[sorted[(n + 1) \div 2]]
       ELSE f[sorted[n \div 2]] + f[sorted[n \div 2 + 1]]

calculate_player_positions(df, players, team_id, starting_xi_only) ==
    IF Unavailable(df) THEN EmptyFrame
    ELSE LET rows == df.rows
             chosen == IF starting_xi_only
                       THEN get_starting_xi(players, team_id)
                       ELSE {p \in players : p.team_id = team_id}
             player_ids == {p.player_id : p \in chosen}
             team_events == {i \in DOMAIN rows :
                                /\ rows[i].teamId = team_id
                                /\ rows[i].playerId # None
                                /\ (starting_xi_only =>
                                       rows[i].playerId \in player_ids)}
         IN IF chosen = {} THEN EmptyFrame
            ELSE [p \in {rows[i].playerId : i \in team_events} |->
                     LET own == {i \in team_events : rows[i].playerId = p}
                     IN [avg_x |-> Median2([i \in own |-> rows[i].x], own),
                         avg_y |-> Median2([i \in own |-> rows[i].y], own),
                         event_count |-> Cardinality(own)]]

get_pass_connections(df, players, team_id, min_passes) ==
    IF Unavailable(df) THEN EmptyNetwork
    ELSE LET rows == df.rows
             passes == SuccessfulPasses(rows, team_id)
             starting_ids == {p.player_id : p \in get_starting_xi(players, team_id)}
             receiver == [i \in passes |-> NextTouchReceiver(rows, i, team_id)]
             kept == {i \in passes : /\ rows[i].playerId \in starting_ids
                                     /\ receiver[i] \in starting_ids
                                     /\ receiver[i] # None}
         IN IF starting_ids = {} THEN EmptyNetwork
            ELSE [receiver |-> receiver, kept |-> kept,
                  connections |->
                      FilterMinPasses(Aggregate(rows, receiver, kept), min_passes)]

get_pass_network_data(df, players, team_id, min_passes) ==
    IF Unavailable(df) THEN EmptyNetwork @@ [avg_positions |-> <<>>]
    ELSE LET rows == df.rows
             starting_ids == {p.player_id : p \in get_starting_xi(players, team_id)}
             passes == {i \in SuccessfulPasses(rows, team_id) :
                            rows[i].playerId \in starting_ids}
             receiver == [i \in passes |-> NextTouchReceiver(rows, i, team_id)]
             kept == {i \in passes : /\ receiver[i] \in starting_ids
                                     /\ receiver[i] # None}
         IN IF starting_ids = {} THEN EmptyNetwork @@ [avg_positions |-> <<>>]
            ELSE [receiver |-> receiver, kept |-> kept,
                  avg_positions |-> AveragePositions(rows, passes),
                  connections |->
                      FilterMinPasses(Aggregate(rows, receiver, kept), min_passes)]

(***************************************************************************)
(* StatsAggregator.  A percentage rounded to one decimal is an integer     *)
(* number of tenths.                                                       *)
(***************************************************************************)
TeamEvents(rows, team_id) == {i \in DOMAIN rows : rows[i].teamId = team_id}

CountType(rows, events, types) ==
    Cardinality({i \in events : rows[i].type_display \in types})

CountSuccessful(rows, events, types) ==
    Cardinality({i \in events : /\ rows[i].type_display \in types
                                /\ rows[i].is_successful})

CountQualifier(rows, events, name) ==
    Cardinality({i \in events : InDict(rows[i].qualifiers_dict, name)})

ShotTypes == {"Shot", "MissedShots", "SavedShot", "ShotOnPost", "Goal"}

_count_shots(rows, events) == CountType(rows, events, ShotTypes)

\* the goals left out of the shots on target
CountSavedShots(rows, events) == CountType(rows, events, {"SavedShot"})

_count_shots_on_target(rows, events) ==
    CountType(rows, events, {"SavedShot", "Goal"})

\* the count without the own-goal subtraction
CountGoalEvents(rows, events) == CountType(rows, events, {"Goal"})

_count_goals(rows, events) ==
    LET goals == CountType(rows, events, {"Goal"})
        own_goals == Cardinality({i \in events :
                                     /\ rows[i].type_display = "Goal"
                                     /\ rows[i].is_own_goal})
    IN goals - own_goals

\* the total taken over completed passes only
CountCompletedOnly(rows, events) == CountSuccessful(rows, events, {"Pass"})

_count_passes(rows, events) == CountType(rows, events, {"Pass"})

_count_passes_completed(rows, events) ==
    CountSuccessful(rows, events, {"Pass"})

\* round(num / den, 0) of Python: to nearest, ties to even
RoundHalfEven(num, den) ==
    LET q == num \div den
        r == num % den
    IN IF 2 * r < den THEN q
       ELSE IF 2 * r > den THEN q + 1
       ELSE IF q % 2 = 0 THEN q ELSE q + 1

_calculate_pass_accuracy(rows, events) ==
    LET total == _count_passes(rows, events)
        completed == _count_passes_completed(rows, events)
    IN IF total = 0 THEN 0
       ELSE RoundHalfEven(completed * 1000, total)

\* the list without the penalty
SetPiecesButPenalty == {"FreeKick", "Corner", "ThrowIn"}

SetPieceQualifiers == {"FreeKick", "Corner", "ThrowIn", "Penalty"}

IsSetPiece(row) ==
    \E k \in SetPieceQualifiers : InDict(row.qualifiers_dict, k)

Shots(rows, events) == {i \in events : rows[i].type_display \in ShotTypes}

Raised(error) == [raised |-> TRUE, error |-> error]

\* round(events['xg'].sum(), 2) in hundredths
_calculate_xg(rows, events) == SumOver([i \in events |-> rows[i].xg], events)

aggregate_team_stats(df, team_id) ==
    IF df.rows = <<>> THEN Raised("KeyError")
    ELSE LET rows == df.rows
             team_events == TeamEvents(rows, team_id)
             shots == Shots(rows, team_events)
         IN [raised |-> FALSE,
             shots |-> _count_shots(rows, team_events),
             shots_on_target |-> _count_shots_on_target(rows, team_events),
             shots_off_target |-> CountType(rows, team_events, {"MissedShots"}),
             blocked_shots |-> CountType(rows, team_events, {"BlockedPass"}),
             goals |-> _count_goals(rows, team_events),
             passes |-> _count_passes(rows, team_events),
             passes_completed |-> _count_passes_completed(rows, team_events),
             pass_accuracy |-> _calculate_pass_accuracy(rows, team_events),
             xg |-> _calculate_xg(rows, team_events),
             touches |-> Cardinality(team_events),
             tackles |-> CountType(rows, team_events, {"Tackle"}),
             interceptions |-> CountType(rows, team_events, {"Interception"}),
             clearances |-> CountType(rows, team_events, {"Clearance"}),
             blocks |-> CountType(rows, team_events, {"BlockedPass", "Block"}),
             dribbles |-> CountType(rows, team_events, {"TakeOn"}),
             dribbles_successful |->
                 CountSuccessful(rows, team_events, {"TakeOn"}),
             fouls |-> CountType(rows, team_events, {"Foul"}),
             yellow_cards |-> CountQualifier(rows, team_events, "YellowCard"),
             red_cards |-> CountQualifier(rows, team_events, "RedCard"),
             offsides |-> CountType(rows, team_events, {"OffsidePass"}),
             aerial_duels |-> CountType(rows, team_events, {"Aerial"}),
             aerial_duels_won |->
                 CountSuccessful(rows, team_events, {"Aerial"}),
             saves |-> CountType(rows, team_events, {"Save"}),
             errors_leading_to_shot |->
                 CountType(rows, team_events, {"Error"}),
             errors_leading_to_goal |->
                 CountQualifier(rows, team_events, "LeadToGoal"),
             dispossessed |-> CountType(rows, team_events, {"Dispossessed"}),
             bad_touches |-> CountQualifier(rows, team_events, "BadTouch"),
             penalty_area_shots |->
                 Cardinality({i \in shots : /\ rows[i].x >= 8850
                                            /\ rows[i].y >= 1380
                                            /\ rows[i].y <= 5420}),
             six_yard_box_shots |->
                 Cardinality({i \in shots : /\ rows[i].x >= 9950
                                            /\ rows[i].y >= 2480
                                            /\ rows[i].y <= 4320}),
             outside_box_shots |->
                 Cardinality({i \in shots : /\ rows[i].x # NaN
                                            /\ rows[i].x < 8850}),
             right_foot_shots |-> CountQualifier(rows, shots, "RightFoot"),
             left_foot_shots |-> CountQualifier(rows, shots, "LeftFoot"),
             headed_shots |-> CountQualifier(rows, shots, "Head"),
             open_play_shots |->
                 Cardinality({i \in shots : ~IsSetPiece(rows[i])}),
             set_piece_shots |->
                 Cardinality({i \in shots : IsSetPiece(rows[i])}),
             counter_attack_shots |->
                 CountQualifier(rows, shots, "CounterAttack")]

(***************************************************************************)
(* TeamProcessor.  A percentage that is not rounded is the exact fraction  *)
(* [num, den], the value num / den.                                        *)
(***************************************************************************)
Fraction(num, den) == [num |-> num, den |-> den]
Fifty == Fraction(50, 1)

\* the shares taken over every row of the table
PossessionOfAllRows(df, home_id, away_id) ==
    IF Unavailable(df) THEN [home |-> Fifty, away |-> Fifty]
    ELSE [home |-> Fraction(Cardinality(TeamEvents(df.rows, home_id)) * 100,
                            Len(df.rows)),
          away |-> Fraction(Cardinality(TeamEvents(df.rows, away_id)) * 100,
                            Len(df.rows))]

calculate_possession(df, home_id, away_id) ==
    IF Unavailable(df) THEN [home |-> Fifty, away |-> Fifty]
    ELSE LET home_events == Cardinality(TeamEvents(df.rows, home_id))
             away_events == Cardinality(TeamEvents(df.rows, away_id))
             total == home_events + away_events
         IN IF total = 0 THEN [home |-> Fifty, away |-> Fifty]
            ELSE [home |-> Fraction(home_events * 100, total),
                  away |-> Fraction(away_events * 100, total)]

EmptyDict == <<>>

\* passes['distance'].mean(): the mean of the square roots of these squares
MeanOfRoots(rows, measured) == [i \in measured |-> rows[i].distance_sq]

calculate_passing_stats(df, team_id) ==
    IF Unavailable(df) THEN EmptyDict
    ELSE LET rows == df.rows
             passes == {i \in TeamEvents(rows, team_id) :
                            rows[i].type_display = "Pass"}
             completed == {i \in passes : rows[i].is_successful}
             measured == {i \in passes : rows[i].distance_sq # NaN}
         IN IF passes = {}
            THEN [total_passes |-> 0, completed_passes |-> 0,
                  pass_accuracy |-> Fraction(0, 1), forward_passes |-> 0,
                  backward_passes |-> 0, short_passes |-> 0,
                  long_passes |-> 0, key_passes |-> 0, assists |-> 0]
            ELSE [total_passes |-> Cardinality(passes),
                  completed_passes |-> Cardinality(completed),
                  pass_accuracy |->
                      IF Cardinality(passes) > 0
                      THEN Fraction(Cardinality(completed) * 100,
                                    Cardinality(passes))
                      ELSE Fraction(0, 1),
                  forward_passes |->
                      Cardinality({i \in measured : rows[i].distance_sq > 0}),
                  progressive_passes |->
                      Cardinality({i \in passes : rows[i].is_progressive}),
                  short_passes |->
                      Cardinality({i \in measured :
                                      rows[i].distance_sq < 1500 * 1500}),
                  long_passes |->
                      Cardinality({i \in measured :
                                      rows[i].distance_sq >= 2500 * 2500}),
                  key_passes |->
                      Cardinality({i \in passes : rows[i].is_key_pass}),
                  assists |->
                      Cardinality({i \in passes : rows[i].is_assist}),
                  avg_pass_length |-> MeanOfRoots(rows, measured)]

calculate_shooting_stats(df, team_id) ==
    IF Unavailable(df) THEN EmptyDict
    ELSE LET rows == df.rows
             shots == {i \in TeamEvents(rows, team_id) :
                           rows[i].type_display = "Shot"}
             on_target == {i \in shots : rows[i].is_successful}
         IN IF shots = {}
            THEN [total_shots |-> 0, shots_on_target |-> 0, goals |-> 0,
                  xg |-> 0, shot_accuracy |-> Fraction(0, 1)]
            ELSE [total_shots |-> Cardinality(shots),
                  shots_on_target |-> Cardinality(on_target),
                  goals |-> Cardinality({i \in shots : rows[i].is_goal}),
                  xg |-> SumOver([i \in shots |-> rows[i].xg], shots),
                  shot_accuracy |->
                      Fraction(Cardinality(on_target) * 100, Cardinality(shots)),
                  shots_inside_box |->
                      Cardinality({i \in shots : rows[i].x >= 8850}),
                  shots_outside_box |->
                      Cardinality({i \in shots : /\ rows[i].x # NaN
                                                 /\ rows[i].x < 8850})]

calculate_defensive_stats(df, team_id) ==
    IF Unavailable(df) THEN EmptyDict
    ELSE LET rows == df.rows
             actions == {i \in TeamEvents(rows, team_id) :
                            rows[i].type_display \in
                                {"Tackle", "Interception", "Clearance",
                                 "BlockedPass"}}
         IN [total_defensive_actions |-> Cardinality(actions),
             tackles |-> CountType(rows, actions, {"Tackle"}),
             interceptions |-> CountType(rows, actions, {"Interception"}),
             clearances |-> CountType(rows, actions, {"Clearance"}),
             blocked_passes |-> CountType(rows, actions, {"BlockedPass"}),
             successful_defensive_actions |->
                 Cardinality({i \in actions : rows[i].is_successful})]

\* the thirds of a pitch 100 long: the splits at a third and two thirds of
\* the raw scale
ThirdsOfRawScale(df, team_id) ==
    IF Unavailable(df) THEN EmptyDict
    ELSE LET rows == df.rows
             team_events == TeamEvents(rows, team_id)
             located == {i \in team_events : rows[i].x # NaN}
             defensive_third == {i \in located : rows[i].x <= 3333}
             middle_third == {i \in located :
                                 rows[i].x > 3333 /\ rows[i].x <= 6667}
             attacking_third == {i \in located : rows[i].x > 6667}
             total == Cardinality(team_events)
         IN IF team_events = {} THEN EmptyDict
            ELSE [defensive_third_events |-> Cardinality(defensive_third),
                  middle_third_events |-> Cardinality(middle_third),
                  attacking_third_events |-> Cardinality(attacking_third),
                  defensive_third_pct |->
                      Fraction(Cardinality(defensive_third) * 100, total),
                  middle_third_pct |->
                      Fraction(Cardinality(middle_third) * 100, total),
                  attacking_third_pct |->
                      Fraction(Cardinality(attacking_third) * 100, total),
                  avg_event_x |->
                      Mean([i \in team_events |-> rows[i].x], team_events),
                  avg_event_y |->
                      Mean([i \in team_events |-> rows[i].y], team_events)]

calculate_territorial_stats(df, team_id) ==
    IF Unavailable(df) THEN EmptyDict
    ELSE LET rows == df.rows
             team_events == TeamEvents(rows, team_id)
             located == {i \in team_events : rows[i].x # NaN}
             defensive_third == {i \in located : rows[i].x <= 3500}
             middle_third == {i \in located :
                                 rows[i].x > 3500 /\ rows[i].x <= 7000}
             attacking_third == {i \in located : rows[i].x > 7000}
             total == Cardinality(team_events)
         IN IF team_events = {} THEN EmptyDict
            ELSE [defensive_third_events |-> Cardinality(defensive_third),
                  middle_third_events |-> Cardinality(middle_third),
                  attacking_third_events |-> Cardinality(attacking_third),
                  defensive_third_pct |->
                      Fraction(Cardinality(defensive_third) * 100, total),
                  middle_third_pct |->
                      Fraction(Cardinality(middle_third) * 100, total),
                  attacking_third_pct |->
                      Fraction(Cardinality(attacking_third) * 100, total),
                  avg_event_x |->
                      Mean([i \in team_events |-> rows[i].x], team_events),
                  avg_event_y |->
                      Mean([i \in team_events |-> rows[i].y], team_events)]

get_comprehensive_team_stats(df, home_id, away_id) ==
    [home |-> [passing |-> calculate_passing_stats(df, home_id),
               shooting |-> calculate_shooting_stats(df, home_id),
               defensive |-> calculate_defensive_stats(df, home_id),
               territorial |-> calculate_territorial_stats(df, home_id)],
     away |-> [passing |-> calculate_passing_stats(df, away_id),
               shooting |-> calculate_shooting_stats(df, away_id),
               defensive |-> calculate_defensive_stats(df, away_id),
               territorial |-> calculate_territorial_stats(df, away_id)],
     possession |-> calculate_possession(df, home_id, away_id)]

StatCategories == {"passing", "shooting", "defensive"}

\* the DataFrame of rows {category, stat, home, away}, one for each key of
\* the home mapping; stats['away'][category][key] raises on a missing key
compare_teams(df, home_id, away_id) ==
    LET stats == get_comprehensive_team_stats(df, home_id, away_id)
    IN IF \E c \in StatCategories : \E key \in DOMAIN stats.home[c] :
              key \notin DOMAIN stats.away[c]
       THEN Raised("KeyError")
       ELSE [raised |-> FALSE,
             comparison_data |->
                 [c \in StatCategories |->
                     [key \in DOMAIN stats.home[c] |->
                         [home |-> stats.home[c][key],
                          away |-> stats.away[c][key]]]]]

(***************************************************************************)
(* EventProcessor.get_event_statistics and the MatchProcessor facade.      *)
(***************************************************************************)
get_event_statistics(df) ==
    IF Unavailable(df) THEN EmptyDict
    ELSE LET rows == df.rows
             all == DOMAIN rows
         IN [total_events |-> Len(rows),
             by_team |-> [t \in {rows[i].teamId : i \in all} |->
                              Cardinality(TeamEvents(rows, t))],
             by_type |-> [ty \in {rows[i].type_display : i \in all} |->
                              CountType(rows, all, {ty})],
             successful_events |->
                 Cardinality({i \in all : rows[i].is_successful}),
             key_passes |-> Cardinality({i \in all : rows[i].is_key_pass}),
             assists |-> Cardinality({i \in all : rows[i].is_assist}),
             goals |-> Cardinality({i \in all : rows[i].is_goal})]

get_complete_match_summary(centre, df) ==
    IF ~centre.success THEN Raised("AttributeError")
    ELSE [raised |-> FALSE, success |-> TRUE,
          possession |-> calculate_possession(df, HomeId, AwayId),
          event_stats |-> get_event_statistics(df),
          team_stats |-> get_comprehensive_team_stats(df, HomeId, AwayId)]

\* the sub-processors exist exactly when the extraction succeeded
export_summary_to_dict(centre, df) ==
    LET summary == get_complete_match_summary(centre, df)
    IN IF summary.raised THEN summary
       ELSE summary @@ [events_available |-> centre.success,
                        players_available |-> centre.success,
                        teams_available |-> centre.success]

get_events_dataframe(df) == IF df.isNone THEN DataFrame(<<>>) ELSE df

(***************************************************************************)
(* HeatmapVisualizations.create_pitch_control_map: the 6 x 5 grid of       *)
(* np.linspace(0, 105, 7) by np.linspace(0, 68, 6).  home_cnt / total is   *)
(* compared with 0.6 and 0.4 as the exact fraction; the double quotient    *)
(* gives the same answers for counts of this size.                         *)
(***************************************************************************)
XBins == 6
YBins == 5
XBin(i) == (i * 10500) \div XBins
YBin(j) == (j * 6800) \div YBins

InCell(row, i, j) ==
    /\ row.x # NaN /\ row.y # NaN
    /\ row.x >= XBin(i) /\ row.x < XBin(i + 1)
    /\ row.y >= YBin(j) /\ row.y < YBin(j + 1)

\* both thresholds taken inclusively
InclusiveLabel(home_cnt, away_cnt) ==
    LET total == home_cnt + away_cnt
    IN IF total > 0
       THEN IF 10 * home_cnt >= 6 * total THEN "Home"
            ELSE IF 10 * home_cnt <= 4 * total THEN "Away"
            ELSE "Contested"
       ELSE "NoPatch"

PitchControlLabel(home_cnt, away_cnt) ==
    LET total == home_cnt + away_cnt
    IN IF total > 0
       THEN IF 10 * home_cnt > 6 * total THEN "Home"
            ELSE IF 10 * home_cnt < 4 * total THEN "Away"
            ELSE "Contested"
       ELSE "NoPatch"

create_pitch_control_map(df, home_id, away_id) ==
    LET rows == df.rows
        home_events == TeamEvents(rows, home_id)
        away_events == TeamEvents(rows, away_id)
    IN [c \in (0..(XBins - 1)) \X (0..(YBins - 1)) |->
           LET home_cnt == Cardinality({k \in home_events :
                                           InCell(rows[k], c[1], c[2])})
               away_cnt == Cardinality({k \in away_events :
                                           InCell(rows[k], c[1], c[2])})
           IN [home_cnt |-> home_cnt, away_cnt |-> away_cnt,
               patch |-> PitchControlLabel(home_cnt, away_cnt)]]

(***************************************************************************)
(* EventProcessor.calculate_zonal_control, called by the report generator  *)
(* with grid_cols = 6 and grid_rows = 4.  The matrix holds 'H', 'A' or 'C' *)
(* (the values create_zonal_control_map draws); the grid partitions the    *)
(* whole pitch, so the far touchlines belong to the last column and row.   *)
(***************************************************************************)
ZoneCol(x, grid_cols) ==
    LET col == (x * grid_cols) \div 10500
    IN IF col >= grid_cols THEN grid_cols - 1 ELSE col

ZoneRow(y, grid_rows) ==
    LET row == (y * grid_rows) \div 6800
    IN IF row >= grid_rows THEN grid_rows - 1 ELSE row

\* an empty cell given the share 0 instead of the default
ZoneLabelOfShare(home_cnt, away_cnt) ==
    IF 10 * home_cnt > 6 * (home_cnt + away_cnt) THEN "H"
    ELSE IF 10 * home_cnt <= 4 * (home_cnt + away_cnt) THEN "A"
    ELSE "C"

ZoneLabel(home_cnt, away_cnt) ==
    LET total == home_cnt + away_cnt
    IN IF total = 0 THEN "C"
       ELSE IF 10 * home_cnt > 6 * total THEN "H"
       ELSE IF 10 * home_cnt < 4 * total THEN "A"
       ELSE "C"

calculate_zonal_control(df, home_id, away_id, grid_cols, grid_rows) ==
    LET rows == df.rows
        InZone(k, r, c) ==
            /\ rows[k].x # NaN /\ rows[k].y # NaN
            /\ ZoneCol(rows[k].x, grid_cols) = c
            /\ ZoneRow(rows[k].y, grid_rows) = r
    IN [z \in (0..(grid_rows - 1)) \X (0..(grid_cols - 1)) |->
           ZoneLabel(
               Cardinality({k \in TeamEvents(rows, home_id) :
                               InZone(k, z[1], z[2])}),
               Cardinality({k \in TeamEvents(rows, away_id) :
                               InZone(k, z[1], z[2])}))]

(***************************************************************************)
(* AdvancedVisualizations.create_cumulative_xg.  An xG value is an integer *)
(* number of ten-thousandths, so that 0.02 is 200 and the factor 0.7 is    *)
(* exact; an angle is in hundredths of a radian; a distance to goal that   *)
(* is computed from x and y is compared by its square.                     *)
(***************************************************************************)
ShotRow(team, mins, xg, type, outcome, quals, x, y, dist, angle) ==
    [teamId |-> team, cumulative_mins |-> mins, xg |-> xg,
     type_display |-> type, outcome_display |-> outcome,
     qualifiers_dict |-> quals, x |-> x, y |-> y,
     dist_to_goal |-> dist, angle |-> angle]

\* d < limit, for d the column dist_to_goal or else the distance of (x, y)
\* to the centre of the goal at (105, 34); FALSE when d is not finite
CloserThan(r, limit) ==
    IF r.dist_to_goal # NaN THEN r.dist_to_goal < limit
    ELSE IF r.x # NaN /\ r.y # NaN
    THEN (10500 - r.x) * (10500 - r.x) + (3400 - r.y) * (3400 - r.y)
             < limit * limit
    ELSE FALSE

HeuristicBase(r) ==
    LET q == r.qualifiers_dict
        in_box == /\ r.x # NaN /\ r.y # NaN /\ r.x >= 8850
                  /\ 1380 <= r.y /\ r.y <= 5420
        located == 200 + (IF in_box THEN 1000
                          ELSE IF r.x # NaN /\ r.x >= 7000 THEN 500 ELSE 0)
        ranged == located + (IF CloserThan(r, 800) THEN 2000
                             ELSE IF CloserThan(r, 1200) THEN 1200
                             ELSE IF CloserThan(r, 1800) THEN 700
                             ELSE IF CloserThan(r, 2500) THEN 300 ELSE 0)
        angled == ranged + (IF r.angle = NaN THEN 0
                            ELSE IF r.angle > 35 THEN 500
                            ELSE IF r.angle > 25 THEN 300 ELSE 0)
        headed == IF InDict(q, "Head") \/ r.type_display = "Head"
                  THEN (angled * 7) \div 10 ELSE angled
        saved == headed + (IF r.outcome_display \in {"SavedShot", "ShotOnPost"}
                           THEN 300 ELSE 0)
        missed == saved - (IF r.outcome_display = "MissedShots"
                           THEN 100 ELSE 0)
    IN IF r.type_display = "Goal" /\ missed < 2500 THEN 2500 ELSE missed

\* the value bounded by 0 and 1 only
ClampToUnit(base) == IF base < 0 THEN 0 ELSE IF base > 10000 THEN 10000 ELSE base

Clamp(base) == IF base < 100 THEN 100 ELSE IF base > 9500 THEN 9500 ELSE base

_heuristic_xg(r) ==
    IF InDict(r.qualifiers_dict, "Penalty") THEN 7600
    ELSE Clamp(HeuristicBase(r))

_xg_used(row) ==
    IF row.xg # NaN /\ row.xg > 0 THEN row.xg ELSE _heuristic_xg(row)

\* the steps of the chart of a team: the xG added at each of its shots
build_series(rows, team_id) ==
    LET kept == {i \in DOMAIN rows : /\ rows[i].cumulative_mins # NaN
                                     /\ rows[i].cumulative_mins <= 90 * 60
                                     /\ rows[i].teamId = team_id}
    IN [i \in kept |-> _xg_used(rows[i])]

create_cumulative_xg(df, home_id, away_id) ==
    IF Unavailable(df) THEN [drawn |-> FALSE, home |-> <<>>, away |-> <<>>]
    ELSE [drawn |-> TRUE,
          home |-> build_series(df.rows, home_id),
          away |-> build_series(df.rows, away_id)]

(***************************************************************************)
(* DataLoader.  The cache directory is the function from the match ids     *)
(* that have a whoscored_<id>.json file to the text of the file.  What the *)
(* extractor returns is parsed from the JSON of the page, so json.dump and *)
(* json.load give it back as it was.                                       *)
(***************************************************************************)
MatchIds == {101, 102}

\* the match centre the site serves at the time of a call
Pages == {[success |-> TRUE, score |-> "1 : 0"],
          [success |-> TRUE, score |-> "2 : 1"],
          [success |-> FALSE, error |-> "No JSON data found"]}

extract_all_sections(match_id, page) ==
    [match_id |-> match_id, match_centre |-> page]

JsonDump(value) == [text |-> value]
JsonLoad(file) == file.text

Exists(files, match_id) == match_id \in DOMAIN files
Written(files, match_id, file) ==
    [i \in DOMAIN files \cup {match_id} |->
        IF i = match_id THEN file ELSE files[i]]
Removed(files, match_id) ==
    [i \in DOMAIN files \ {match_id} |-> files[i]]

(***************************************************************************)
(* MatchDatabaseManager.  self.data is {"leagues": [...]}, each league a   *)
(* name and its list of matches; a match is the record of the keys it has. *)
(* The display name is kept as the tuple of the parts it is formatted      *)
(* from.                                                                   *)
(***************************************************************************)
required_fields ==
    {"id", "home_team", "away_team", "date", "whoscored_id", "fotmob_id"}

get_all_leagues(db) == db.leagues

get_league_by_name(db, league_name) ==
    LET found == {i \in DOMAIN get_all_leagues(db) :
                     get_all_leagues(db)[i].name = league_name}
    IN IF found = {} THEN None
       ELSE CHOOSE i \in found : \A j \in found : i <= j

get_matches_by_league(db, league_name) ==
    LET league == get_league_by_name(db, league_name)
    IN IF league # None THEN db.leagues[league].matches ELSE <<>>

RECURSIVE TotalFrom(_, _)
TotalFrom(leagues, i) ==
    IF i > Len(leagues) THEN 0
    ELSE Len(leagues[i].matches) + TotalFrom(leagues, i + 1)

get_total_matches(db) == TotalFrom(get_all_leagues(db), 1)

WithDisplay(match_data) ==
    IF "display" \in DOMAIN match_data THEN match_data
    ELSE [k \in DOMAIN match_data \cup {"display"} |->
             IF k = "display"
             THEN <<match_data.home_team,
                    IF "score" \in DOMAIN match_data
                    THEN match_data.score ELSE "vs",
                    match_data.away_team, match_data.date>>
             ELSE match_data[k]]

Appended(db, league, match_data) ==
    [leagues |-> [i \in DOMAIN db.leagues |->
        IF i = league
        THEN [db.leagues[i] EXCEPT !.matches = Append(@, match_data)]
        ELSE db.leagues[i]]]

(***************************************************************************)
(* Operations.                                                             *)
(***************************************************************************)
Construct ==
    /\ pc = "new"
    /\ LET error == IF /\ match_centre.success /\ match_centre.present
                       /\ match_centre.events # <<>>
                    THEN NormalizeError(match_centre.events)
                    ELSE NoError
       IN IF error # NoError
          THEN /\ pc' = "failed"
               /\ ret' = [op |-> "__init__", value |-> Raised(error)]
               /\ UNCHANGED events_df
          ELSE /\ events_df' = IF match_centre.success
                               THEN EventProcessor_init(match_centre)
                               ELSE NoneDF
               /\ pc' = "ready"
               /\ UNCHANGED ret
    /\ UNCHANGED <<match_centre, all_players_df, outside>>

TeamArgs == {HomeId, AwayId}
MinPassesArgs == {0, 2, 3}

\* the threshold of the previous network call kept for this one
GetPassConnectionsWithLastThreshold ==
    /\ pc = "ready"
    /\ \E team_id \in TeamArgs, min_passes \in MinPassesArgs :
         ret' = [op |-> "get_pass_connections", team_id |-> team_id,
                 min_passes |-> min_passes,
                 value |-> get_pass_connections(
                               events_df, all_players_df, team_id,
                               IF ret.op \in {"get_pass_connections",
                                              "get_pass_network_data"}
                               THEN ret.min_passes ELSE min_passes)]
    /\ UNCHANGED <<match_centre, all_players_df, events_df, pc, outside>>

GetPassConnections ==
    /\ pc = "ready"
    /\ \E team_id \in TeamArgs, min_passes \in MinPassesArgs :
         ret' = [op |-> "get_pass_connections", team_id |-> team_id,
                 min_passes |-> min_passes,
                 value |-> get_pass_connections(events_df, all_players_df,
                                                team_id, min_passes)]
    /\ UNCHANGED <<match_centre, all_players_df, events_df, pc, outside>>

GetPassNetworkData ==
    /\ pc = "ready"
    /\ \E team_id \in TeamArgs, min_passes \in MinPassesArgs :
         ret' = [op |-> "get_pass_network_data", team_id |-> team_id,
                 min_passes |-> min_passes,
                 value |-> get_pass_network_data(events_df, all_players_df,
                                                 team_id, min_passes)]
    /\ UNCHANGED <<match_centre, all_players_df, events_df, pc, outside>>

CreatePassNetworkData ==
    /\ pc = "ready"
    /\ \E team_id \in TeamArgs, starting_xi_only \in BOOLEAN :
         ret' = [op |-> "create_pass_network_data", team_id |-> team_id,
                 starting_xi_only |-> starting_xi_only,
                 value |-> create_pass_network_data(events_df, team_id,
                                                    starting_xi_only)]
    /\ UNCHANGED <<match_centre, all_players_df, events_df, pc, outside>>

GetPasses ==
    /\ pc = "ready"
    /\ \E team_id \in TeamArgs \cup {None}, successful_only \in BOOLEAN :
         ret' = [op |-> "get_passes", team_id |-> team_id,
                 successful_only |-> successful_only,
                 value |-> get_passes(events_df, team_id, successful_only)]
    /\ UNCHANGED <<match_centre, all_players_df, events_df, pc, outside>>

AggregateTeamStats ==
    /\ pc = "ready"
    /\ \E team_id \in TeamArgs :
         ret' = [op |-> "aggregate_team_stats", team_id |-> team_id,
                 value |-> aggregate_team_stats(events_df, team_id)]
    /\ UNCHANGED <<match_centre, all_players_df, events_df, pc, outside>>

CalculatePossession ==
    /\ pc = "ready"
    /\ match_centre.success
    /\ ret' = [op |-> "calculate_possession",
               value |-> calculate_possession(events_df, HomeId, AwayId)]
    /\ UNCHANGED <<match_centre, all_players_df, events_df, pc, outside>>

CalculatePassingStats ==
    /\ pc = "ready"
    /\ match_centre.success
    /\ \E team_id \in TeamArgs :
         ret' = [op |-> "calculate_passing_stats", team_id |-> team_id,
                 value |-> calculate_passing_stats(events_df, team_id)]
    /\ UNCHANGED <<match_centre, all_players_df, events_df, pc, outside>>

GetShots ==
    /\ pc = "ready"
    /\ \E team_id \in TeamArgs \cup {None} :
         ret' = [op |-> "get_shots", team_id |-> team_id,
                 value |-> get_shots(events_df, team_id)]
    /\ UNCHANGED <<match_centre, all_players_df, events_df, pc, outside>>

GetDefensiveActions ==
    /\ pc = "ready"
    /\ \E team_id \in TeamArgs \cup {None} :
         ret' = [op |-> "get_defensive_actions", team_id |-> team_id,
                 value |-> get_defensive_actions(events_df, team_id)]
    /\ UNCHANGED <<match_centre, all_players_df, events_df, pc, outside>>

GetCarries ==
    /\ pc = "ready"
    /\ \E team_id \in TeamArgs \cup {None} :
         ret' = [op |-> "get_carries", team_id |-> team_id,
                 value |-> get_carries(events_df, team_id)]
    /\ UNCHANGED <<match_centre, all_players_df, events_df, pc, outside>>

ZoneArgs == {"defensive_third", "middle_third", "attacking_third", "zone14",
             "left_half_space", "right_half_space", "penalty_box", "pitch"}

\* the rows outside the zone dropped from the stored table itself
GetEventsByZoneInPlace ==
    /\ pc = "ready"
    /\ \E zone \in ZoneArgs, team_id \in TeamArgs \cup {None} :
         /\ ret' = [op |-> "get_events_by_zone", zone |-> zone,
                    team_id |-> team_id,
                    value |-> get_events_by_zone(events_df, zone, team_id)]
         /\ events_df' =
                IF events_df.isNone THEN events_df
                ELSE DataFrame(SelectSeq(events_df.rows,
                                         LAMBDA row : InZoneNamed(row, zone)))
    /\ UNCHANGED <<match_centre, all_players_df, pc, outside>>

GetEventsByZone ==
    /\ pc = "ready"
    /\ \E zone \in ZoneArgs, team_id \in TeamArgs \cup {None} :
         ret' = [op |-> "get_events_by_zone", zone |-> zone,
                 team_id |-> team_id,
                 value |-> get_events_by_zone(events_df, zone, team_id)]
    /\ UNCHANGED <<match_centre, all_players_df, events_df, pc, outside>>

CalculatePlayerPositions ==
    /\ pc = "ready"
    /\ \E team_id \in TeamArgs, starting_xi_only \in BOOLEAN :
         ret' = [op |-> "calculate_player_positions", team_id |-> team_id,
                 starting_xi_only |-> starting_xi_only,
                 value |-> calculate_player_positions(
                               events_df, all_players_df, team_id,
                               starting_xi_only)]
    /\ UNCHANGED <<match_centre, all_players_df, events_df, pc, outside>>

CalculateShootingStats ==
    /\ pc = "ready"
    /\ match_centre.success
    /\ \E team_id \in TeamArgs :
         ret' = [op |-> "calculate_shooting_stats", team_id |-> team_id,
                 value |-> calculate_shooting_stats(events_df, team_id)]
    /\ UNCHANGED <<match_centre, all_players_df, events_df, pc, outside>>

CalculateDefensiveStats ==
    /\ pc = "ready"
    /\ match_centre.success
    /\ \E team_id \in TeamArgs :
         ret' = [op |-> "calculate_defensive_stats", team_id |-> team_id,
                 value |-> calculate_defensive_stats(events_df, team_id)]
    /\ UNCHANGED <<match_centre, all_players_df, events_df, pc, outside>>

CalculateTerritorialStats ==
    /\ pc = "ready"
    /\ match_centre.success
    /\ \E team_id \in TeamArgs :
         ret' = [op |-> "calculate_territorial_stats", team_id |-> team_id,
                 value |-> calculate_territorial_stats(events_df, team_id)]
    /\ UNCHANGED <<match_centre, all_players_df, events_df, pc, outside>>

GetComprehensiveTeamStats ==
    /\ pc = "ready"
    /\ match_centre.success
    /\ ret' = [op |-> "get_comprehensive_team_stats",
               value |-> get_comprehensive_team_stats(events_df, HomeId,
                                                      AwayId)]
    /\ UNCHANGED <<match_centre, all_players_df, events_df, pc, outside>>

CompareTeams ==
    /\ pc = "ready"
    /\ match_centre.success
    /\ ret' = [op |-> "compare_teams",
               value |-> compare_teams(events_df, HomeId, AwayId)]
    /\ UNCHANGED <<match_centre, all_players_df, events_df, pc, outside>>

CreateCumulativeXg ==
    /\ pc = "ready"
    /\ ret' = [op |-> "create_cumulative_xg",
               value |-> create_cumulative_xg(shots_df, HomeId, AwayId)]
    /\ UNCHANGED <<match_centre, all_players_df, events_df, pc, outside>>

\* a fresh extraction that leaves the file of an earlier one in place
LoadKeepingOldFile ==
    /\ pc = "ready"
    /\ \E match_id \in MatchIds, use_cache \in BOOLEAN :
         IF use_cache /\ Exists(cache, match_id)
         THEN /\ ret' = [op |-> "load_whoscored_data", match_id |-> match_id,
                         use_cache |-> use_cache,
                         value |-> JsonLoad(cache[match_id])]
              /\ UNCHANGED <<cache, extractor_calls>>
         ELSE /\ extractor_calls < MaxCalls
              /\ \E page \in Pages :
                   LET extracted == extract_all_sections(match_id, page)
                   IN /\ cache' = IF Exists(cache, match_id) THEN cache
                                   ELSE Written(cache, match_id, JsonDump(extracted))
                      /\ ret' = [op |-> "load_whoscored_data",
                                 match_id |-> match_id,
                                 use_cache |-> use_cache, value |-> extracted]
              /\ extractor_calls' = extractor_calls + 1
    /\ UNCHANGED <<match_centre, all_players_df, events_df, pc>>
    /\ UNCHANGED <<shots_df, data, database_file>>

LoadWhoscoredData ==
    /\ pc = "ready"
    /\ \E match_id \in MatchIds, use_cache \in BOOLEAN :
         IF use_cache /\ Exists(cache, match_id)
         THEN /\ ret' = [op |-> "load_whoscored_data", match_id |-> match_id,
                         use_cache |-> use_cache,
                         value |-> JsonLoad(cache[match_id])]
              /\ UNCHANGED <<cache, extractor_calls>>
         ELSE /\ extractor_calls < MaxCalls
              /\ \E page \in Pages :
                   LET extracted == extract_all_sections(match_id, page)
                   IN /\ cache' = Written(cache, match_id, JsonDump(extracted))
                      /\ ret' = [op |-> "load_whoscored_data",
                                 match_id |-> match_id,
                                 use_cache |-> use_cache, value |-> extracted]
              /\ extractor_calls' = extractor_calls + 1
    /\ UNCHANGED <<match_centre, all_players_df, events_df, pc>>
    /\ UNCHANGED <<shots_df, data, database_file>>

\* "if match_id:" is false for None, which clears the whole directory
ClearCache ==
    /\ pc = "ready"
    /\ \E match_id \in MatchIds \cup {None} :
         /\ cache' = IF match_id # None THEN Removed(cache, match_id)
                     ELSE NoFiles
         /\ ret' = [op |-> "clear_cache", match_id |-> match_id]
    /\ UNCHANGED <<match_centre, all_players_df, events_df, pc>>
    /\ UNCHANGED <<shots_df, extractor_calls, data, database_file>>

\* what add_match is called with
LeagueNames == {"Premier League", "La Liga", "Serie A"}

MatchInputs ==
    {[id |-> 1, home_team |-> "Arsenal", away_team |-> "Chelsea",
      date |-> "2024-05-01", whoscored_id |-> 101, fotmob_id |-> 201],
     [id |-> 2, home_team |-> "Sevilla", away_team |-> "Getafe",
      date |-> "2024-05-02", whoscored_id |-> 102, fotmob_id |-> 202,
      score |-> "2-1", display |-> <<"Sevilla 2-1 Getafe">>],
     [id |-> 3, home_team |-> "Everton", away_team |-> "Fulham",
      date |-> "2024-05-03", whoscored_id |-> 103]}

\* open(..., 'w') or json.dump raises: the file is as it was, or cut short,
\* which reads back as a database without leagues
FailedSaves == {database_file, NoLeagues}

AddMatch ==
    /\ pc = "ready"
    /\ get_total_matches(data) < MaxMatches
    /\ \E league_name \in LeagueNames, match_data \in MatchInputs :
         LET league == get_league_by_name(data, league_name)
             called == [op |-> "add_match", league_name |-> league_name,
                        match_data |-> match_data]
         IN IF league = None
            THEN /\ ret' = called @@ [value |-> FALSE]
                 /\ UNCHANGED <<data, database_file>>
            ELSE IF ~(required_fields \subseteq DOMAIN match_data)
            THEN /\ ret' = called @@ [value |-> FALSE]
                 /\ UNCHANGED <<data, database_file>>
            ELSE /\ data' = Appended(data, league, WithDisplay(match_data))
                 /\ \/ /\ database_file' = data'
                       /\ ret' = called @@ [value |-> TRUE]
                    \/ /\ database_file' \in FailedSaves
                       /\ ret' = called @@ [value |-> FALSE]
    /\ UNCHANGED <<match_centre, all_players_df, events_df, pc>>
    /\ UNCHANGED <<shots_df, cache, extractor_calls>>

GetMatchesByLeague ==
    /\ pc = "ready"
    /\ \E league_name \in LeagueNames :
         ret' = [op |-> "get_matches_by_league", league_name |-> league_name,
                 value |-> get_matches_by_league(data, league_name)]
    /\ UNCHANGED <<match_centre, all_players_df, events_df, pc, outside>>

GetTotalMatches ==
    /\ pc = "ready"
    /\ ret' = [op |-> "get_total_matches", value |-> get_total_matches(data)]
    /\ UNCHANGED <<match_centre, all_players_df, events_df, pc, outside>>

GetEventsDataframe ==
    /\ pc = "ready"
    /\ ret' = [op |-> "get_events_dataframe",
               value |-> get_events_dataframe(events_df)]
    /\ UNCHANGED <<match_centre, all_players_df, events_df, pc, outside>>

GetCompleteMatchSummary ==
    /\ pc = "ready"
    /\ ret' = [op |-> "get_complete_match_summary",
               value |-> get_complete_match_summary(match_centre, events_df)]
    /\ UNCHANGED <<match_centre, all_players_df, events_df, pc, outside>>

ExportSummaryToDict ==
    /\ pc = "ready"
    /\ ret' = [op |-> "export_summary_to_dict",
               value |-> export_summary_to_dict(match_centre, events_df)]
    /\ UNCHANGED <<match_centre, all_players_df, events_df, pc, outside>>

CreatePitchControlMap ==
    /\ pc = "ready"
    /\ match_centre.success
    /\ ret' = [op |-> "create_pitch_control_map",
               value |-> create_pitch_control_map(
                             get_events_dataframe(events_df), HomeId, AwayId)]
    /\ UNCHANGED <<match_centre, all_players_df, events_df, pc, outside>>

GridArgs == {<<6, 4>>, <<3, 2>>}

CalculateZonalControl ==
    /\ pc = "ready"
    /\ match_centre.success
    /\ \E grid \in GridArgs :
         ret' = [op |-> "calculate_zonal_control",
                 grid_cols |-> grid[1], grid_rows |-> grid[2],
                 value |-> calculate_zonal_control(events_df, HomeId, AwayId,
                                                   grid[1], grid[2])]
    /\ UNCHANGED <<match_centre, all_players_df, events_df, pc, outside>>

(***************************************************************************)
(* Inputs of the pass-network specification.                               *)
(***************************************************************************)
Plain(team, player, type, outcome) ==
    RawEvent(team, player, type, outcome, <<>>, 50, 50, 60, 50)

NetEvents ==
    { Plain(HomeId, 1, "Pass", "Successful"),
      Plain(HomeId, 2, "Pass", "Successful"),
      Plain(HomeId, 3, "Pass", "Successful"),
      Plain(HomeId, 1, "Pass", "Unsuccessful"),
      Plain(HomeId, 2, "Tackle", "Successful"),
      Plain(HomeId, None, "Tackle", "Successful"),
      Plain(AwayId, 4, "Tackle", "Successful") }

SeqsUpTo(S, n) == UNION {[1..k -> S] : k \in 0..n}

Rosters ==
    { {Player(1, HomeId, TRUE), Player(2, HomeId, TRUE),
       Player(3, HomeId, first3), Player(4, AwayId, TRUE)} :
         first3 \in BOOLEAN }

InitNet ==
    /\ match_centre \in {[success |-> TRUE, present |-> TRUE, events |-> s] :
                           s \in SeqsUpTo(NetEvents, MaxEvents)}
    /\ all_players_df \in Rosters
    /\ events_df = NoneDF
    /\ pc = "new"
    /\ ret = NoRet
    /\ OutsideUnused

NextNet ==
    \/ Construct
    \/ GetPassConnections
    \/ GetPassNetworkData
    \/ CreatePassNetworkData
    \/ GetPasses
    \/ AggregateTeamStats

SpecNet == InitNet /\ [][NextNet]_vars

(***************************************************************************)
(* Inputs of the statistics specification.                                 *)
(***************************************************************************)
Tagged(team, type, outcome, quals) ==
    RawEvent(team, 1, type, outcome, quals, 50, 50, 60, 50)

StatEvents ==
    { Tagged(HomeId, "Pass", "Successful", <<>>),
      Tagged(HomeId, "Pass", "Unsuccessful", <<>>),
      Tagged(AwayId, "Pass", "Successful", <<>>),
      Tagged(HomeId, "Goal", "Successful", <<>>),
      Tagged(HomeId, "Goal", "Successful", <<Qualifier("OwnGoal", Absent)>>),
      Tagged(AwayId, "Goal", "Successful", <<>>),
      Tagged(AwayId, "SavedShot", "Successful", <<>>),
      Tagged(OtherId, "Tackle", "Successful", <<>>) }

InitStats ==
    /\ match_centre \in {[success |-> TRUE, present |-> TRUE, events |-> s] :
                           s \in SeqsUpTo(StatEvents, MaxEvents)}
                      \cup {[success |-> ok, present |-> FALSE, events |-> <<>>] :
                                ok \in BOOLEAN}
    /\ all_players_df = {Player(1, HomeId, TRUE)}
    /\ events_df = NoneDF
    /\ pc = "new"
    /\ ret = NoRet
    /\ OutsideUnused

NextStats ==
    \/ Construct
    \/ AggregateTeamStats
    \/ CalculatePossession
    \/ CalculatePassingStats
    \/ GetCompleteMatchSummary
    \/ ExportSummaryToDict

SpecStats == InitStats /\ [][NextStats]_vars

(***************************************************************************)
(* Inputs of the coordinate specification.                                 *)
(***************************************************************************)
Located(team, player, type, x, y, ex, ey) ==
    RawEvent(team, player, type, "Successful", <<>>, x, y, ex, ey)

CoordEvents ==
    { Located(HomeId, 1, "Pass", 0, 0, 100, 100),
      Located(HomeId, 2, "Pass", 100, 100, 0, 0),
      Located(HomeId, 1, "Pass", 50, 50, NaN, NaN),
      Located(HomeId, 2, "Shot", 90, 50, 100, 50),
      Located(HomeId, 2, "Tackle", NaN, NaN, NaN, NaN),
      Located(AwayId, 4, "Pass", 37, 81, 100, 50),
      Located(AwayId, 4, "Shot", 100, 0, NaN, NaN),
      Located(AwayId, 4, "Tackle", 0, 100, NaN, NaN) }

InitCoord ==
    /\ match_centre \in {[success |-> TRUE, present |-> TRUE, events |-> s] :
                             s \in SeqsUpTo(CoordEvents, MaxCoordEvents)}
    /\ all_players_df = {Player(1, HomeId, TRUE), Player(2, HomeId, TRUE),
                         Player(4, AwayId, TRUE)}
    /\ events_df = NoneDF
    /\ pc = "new"
    /\ ret = NoRet
    /\ OutsideUnused

NextCoord ==
    \/ Construct
    \/ GetEventsDataframe
    \/ GetPasses
    \/ GetShots
    \/ GetPassConnections
    \/ GetPassNetworkData
    \/ AggregateTeamStats
    \/ CalculatePossession
    \/ CalculatePassingStats
    \/ GetCompleteMatchSummary

SpecCoord == InitCoord /\ [][NextCoord]_vars

(***************************************************************************)
(* Inputs of the grid specification: touches of both teams near a corner   *)
(* of the pitch, around the centre and on the far corner flag.             *)
(***************************************************************************)
Touch(team, x, y) ==
    RawEvent(team, 1, "Pass", "Successful", <<>>, x, y, x, y)

Repeat(e, n) == [k \in 1..n |-> e]

ZoneTables ==
    { Repeat(Touch(HomeId, 10, 10), h) \o Repeat(Touch(AwayId, 12, 8), a)
        \o Repeat(Touch(AwayId, 60, 50), c) \o Repeat(Touch(HomeId, 100, 100), f)
        \o Repeat(Touch(OtherId, 60, 50), o) :
          h \in 0..MaxTouches, a \in 0..MaxTouches,
          c \in 0..2, f \in 0..1, o \in 0..1 }

InitZone ==
    /\ match_centre \in {[success |-> TRUE, present |-> TRUE, events |-> s] :
                             s \in ZoneTables}
    /\ all_players_df = {Player(1, HomeId, TRUE)}
    /\ events_df = NoneDF
    /\ pc = "new"
    /\ ret = NoRet
    /\ OutsideUnused

NextZone ==
    \/ Construct
    \/ CreatePitchControlMap
    \/ CalculateZonalControl

SpecZone == InitZone /\ [][NextZone]_vars

(***************************************************************************)
(* Inputs of the normalisation specification: events with a match clock,   *)
(* repeated, valueless and malformed qualifiers and missing fields.        *)
(***************************************************************************)
Timed(e, period, minute, second) ==
    [e EXCEPT !.period = period, !.minute = minute, !.second = second]

NormEvents ==
    { Timed(RawEvent(HomeId, 1, "SavedShot", "Successful",
                     <<Qualifier("Corner", Absent)>>, 90, 50, 100, 50),
            1, 10, 30),
      Timed(RawEvent(HomeId, 2, "Goal", "Successful",
                     <<Qualifier("Zone", "Center"), Qualifier("xG", "0.25"),
                       Qualifier("Zone", "Left")>>, 95, 50, 100, 50),
            2, 1, 0),
      Timed(RawEvent(HomeId, 1, "MissedShots", "Unsuccessful",
                     <<Qualifier("xG", "abc")>>, 80, 40, 100, 60),
            1, 20, 0),
      Timed(RawEvent(HomeId, 3, "Pass", "Successful", NotAList,
                     50, 50, NaN, NaN),
            3, 2, 15),
      Timed(RawEvent(AwayId, 4, "Tackle", "Successful", MissingQualifiers,
                     NaN, NaN, NaN, NaN),
            NaN, NaN, NaN),
      Timed(RawEvent(AwayId, 5, "Shot", "Successful",
                     <<Qualifier("", "junk"), Qualifier("Penalty", Absent)>>,
                     88, 50, 100, 50),
            5, 0, 59),
      Timed(RawEvent(HomeId, 2, "Pass", "Successful", <<>>, 40, 50, 60, 50),
            4, 3, 0),
      Timed(RawEvent(AwayId, 4, "SavedShot", "Successful",
                     <<Qualifier("xG", "0.5")>>, 85, 30, 100, 50),
            2, 30, NaN) }

InitNorm ==
    /\ match_centre \in {[success |-> TRUE, present |-> TRUE, events |-> s] :
                             s \in SeqsUpTo(NormEvents, MaxNormEvents)}
    /\ all_players_df = {Player(1, HomeId, TRUE), Player(2, HomeId, TRUE),
                         Player(3, HomeId, FALSE), Player(4, AwayId, TRUE),
                         Player(5, AwayId, TRUE)}
    /\ events_df = NoneDF
    /\ pc = "new"
    /\ ret = NoRet
    /\ OutsideUnused

NextNorm ==
    \/ Construct
    \/ GetEventsDataframe
    \/ GetPasses
    \/ AggregateTeamStats

SpecNorm == InitNorm /\ [][NextNorm]_vars

(***************************************************************************)
(* Inputs of the read-only specification: every query and aggregator over  *)
(* events spread over the zones of the pitch.                              *)
(***************************************************************************)
FrameEvents ==
    { Located(HomeId, 1, "Pass", 20, 50, 40, 50),
      Located(HomeId, 2, "Pass", 70, 50, 90, 50),
      Located(HomeId, 3, "Shot", 90, 50, 100, 50),
      Located(HomeId, 2, "Tackle", 30, 20, NaN, NaN),
      Located(HomeId, 1, "TakeOn", 80, 20, NaN, NaN),
      Located(AwayId, 4, "Pass", 50, 70, 10, 70),
      Located(AwayId, 4, "Clearance", 5, 50, NaN, NaN) }

InitFrame ==
    /\ match_centre \in {[success |-> TRUE, present |-> TRUE, events |-> s] :
                             s \in SeqsUpTo(FrameEvents, MaxFrameEvents)}
    /\ all_players_df = {Player(1, HomeId, TRUE), Player(2, HomeId, TRUE),
                         Player(3, HomeId, FALSE), Player(4, AwayId, TRUE)}
    /\ events_df = NoneDF
    /\ pc = "new"
    /\ ret = NoRet
    /\ OutsideUnused

NextFrame ==
    \/ Construct
    \/ GetPasses
    \/ GetShots
    \/ GetDefensiveActions
    \/ GetCarries
    \/ GetEventsByZone
    \/ GetPassConnections
    \/ GetPassNetworkData
    \/ CalculatePlayerPositions
    \/ CalculatePossession
    \/ CalculatePassingStats
    \/ CalculateShootingStats
    \/ CalculateDefensiveStats
    \/ CalculateTerritorialStats
    \/ AggregateTeamStats

SpecFrame == InitFrame /\ [][NextFrame]_vars

(***************************************************************************)
(* Inputs of the team-statistics specification: passes played forwards,    *)
(* backwards and square, the spellings of a shot, a team event without     *)
(* coordinates, and tables in which a team has no event at all.            *)
(***************************************************************************)
Outcome(e, outcome, quals) ==
    [e EXCEPT !.outcomeType = outcome, !.qualifiers = quals]

TeamStatEvents ==
    { Located(HomeId, 1, "Pass", 20, 50, 40, 50),
      Located(HomeId, 2, "Pass", 60, 50, 30, 50),
      Outcome(Located(HomeId, 1, "Pass", 50, 20, 50, 60), "Unsuccessful", <<>>),
      Located(HomeId, 2, "SavedShot", 95, 50, 100, 50),
      Located(HomeId, 1, "Shot", 90, 50, 100, 50),
      Located(AwayId, 4, "Goal", 96, 50, 100, 50),
      Outcome(Located(AwayId, 4, "TakeOn", NaN, NaN, NaN, NaN),
              "Unsuccessful", <<>>),
      Located(AwayId, 4, "Aerial", 33, 30, NaN, NaN),
      Outcome(Located(HomeId, 2, "Goal", 4, 50, NaN, NaN), "Successful",
              <<Qualifier("OwnGoal", Absent)>>) }

InitTeam ==
    /\ match_centre \in {[success |-> TRUE, present |-> TRUE, events |-> s] :
                             s \in SeqsUpTo(TeamStatEvents, MaxTeamEvents)}
    /\ all_players_df = {Player(1, HomeId, TRUE), Player(2, HomeId, TRUE),
                         Player(4, AwayId, TRUE)}
    /\ events_df = NoneDF
    /\ pc = "new"
    /\ ret = NoRet
    /\ OutsideUnused

NextTeam ==
    \/ Construct
    \/ GetShots
    \/ AggregateTeamStats
    \/ CalculatePassingStats
    \/ CalculateShootingStats
    \/ CalculateTerritorialStats
    \/ GetEventsByZone
    \/ GetComprehensiveTeamStats
    \/ CompareTeams

SpecTeam == InitTeam /\ [][NextTeam]_vars

(***************************************************************************)
(* Inputs of the xG specification: a shot of every kind of location,       *)
(* distance, angle, body part, outcome and type, followed by shots with an *)
(* encoded xG, of the other team, or outside the 90 minutes of the chart.  *)
(***************************************************************************)
NoMatch ==
    /\ match_centre = [success |-> FALSE, present |-> FALSE, events |-> <<>>]
    /\ all_players_df = {}
    /\ events_df = NoneDF

Flag(name) == <<[type |-> name, value |-> "True"]>>

HeuristicRows ==
    { ShotRow(HomeId, 600, xg, type, outcome, quals, at[1], at[2], dist, angle) :
        xg \in {NaN, 0},
        type \in {"SavedShot", "MissedShots", "Goal", "Head"},
        outcome \in {"Successful", "SavedShot", "MissedShots"},
        quals \in {<<>>, Flag("Penalty"), Flag("Head"),
                   Flag("Head") \o Flag("Penalty")},
        at \in {<<NaN, NaN>>, <<9975, 3400>>, <<7500, 3400>>, <<5000, 3400>>,
                <<9000, 1000>>},
        dist \in {NaN, 700, 1000, 1500, 2000, 3000},
        angle \in {NaN, 20, 30, 40} }

OtherRows ==
    { ShotRow(HomeId, 1200, 2500, "SavedShot", "Successful", <<>>,
              9500, 3400, NaN, NaN),
      ShotRow(AwayId, 1800, 12000, "Goal", "Successful", Flag("Penalty"),
              9400, 3400, 1100, NaN),
      ShotRow(AwayId, 5460, 0 - 500, "MissedShots", "Unsuccessful", <<>>,
              8000, 2000, NaN, 30),
      ShotRow(HomeId, NaN, 0, "SavedShot", "Successful", <<>>,
              9000, 3400, NaN, NaN) }

InitXg ==
    /\ NoMatch
    /\ pc = "ready"
    /\ ret = NoRet
    /\ shots_df \in {NoneDF, DataFrame(<<>>)} \cup
                     {DataFrame(<<first>> \o rest) :
                         first \in HeuristicRows,
                         rest \in SeqsUpTo(OtherRows, MaxShots - 1)}
    /\ cache = NoFiles
    /\ extractor_calls = 0
    /\ data = NoLeagues
    /\ database_file = NoLeagues

NextXg == CreateCumulativeXg

SpecXg == InitXg /\ [][NextXg]_vars

(***************************************************************************)
(* The DataLoader specification: the cache directory holds any files of    *)
(* earlier runs when the loader is constructed.                            *)
(***************************************************************************)
CacheDirs ==
    UNION {[ids -> {JsonDump(extract_all_sections(101, page)) : page \in Pages}
                     \cup {JsonDump(extract_all_sections(102, page)) :
                               page \in Pages}] :
              ids \in SUBSET MatchIds}

InitLoader ==
    /\ NoMatch
    /\ pc = "ready"
    /\ ret = NoRet
    /\ cache \in {files \in CacheDirs :
                     \A i \in DOMAIN files : JsonLoad(files[i]).match_id = i}
    /\ extractor_calls = 0
    /\ shots_df = NoneDF
    /\ data = NoLeagues
    /\ database_file = NoLeagues

NextLoader ==
    \/ LoadWhoscoredData
    \/ ClearCache

SpecLoader == InitLoader /\ [][NextLoader]_vars

(***************************************************************************)
(* The MatchDatabaseManager specification: the database is what            *)
(* _load_database read, nothing when the file is absent or unreadable.     *)
(***************************************************************************)
League(name) == [name |-> name, matches |-> <<>>]

Databases ==
    {NoLeagues,
     [leagues |-> <<League("Premier League")>>],
     [leagues |-> <<League("Premier League"), League("La Liga")>>]}

InitDatabase ==
    /\ NoMatch
    /\ pc = "ready"
    /\ ret = NoRet
    /\ data \in Databases
    /\ database_file = data
    /\ shots_df = NoneDF
    /\ cache = NoFiles
    /\ extractor_calls = 0

NextDatabase ==
    \/ AddMatch
    \/ GetMatchesByLeague
    \/ GetTotalMatches

SpecDatabase == InitDatabase /\ [][NextDatabase]_vars

(***************************************************************************)
(* Properties of the pass network (SpecNet).                               *)
(***************************************************************************)
Raw == match_centre.events
NetworkOps == {"get_pass_connections", "get_pass_network_data"}
StartingIds(team_id) ==
    {p.player_id : p \in {q \in all_players_df :
                             q.is_first_eleven /\ q.team_id = team_id}}

\* the first row after i that satisfies Cond, as the player it names
FirstPlayer(i, Cond(_)) ==
    IF \E j \in (i + 1)..Len(Raw) : Cond(j)
    THEN Raw[CHOOSE j \in (i + 1)..Len(Raw) :
                 Cond(j) /\ \A k \in (i + 1)..(j - 1) : ~Cond(k)].playerId
    ELSE None

SameTeam(i, j) == Raw[j].teamId = Raw[i].teamId
OtherPlayer(i, j) ==
    Raw[j].playerId # Raw[i].playerId
        \/ Raw[j].playerId = None \/ Raw[i].playerId = None

PassesBetween(a, b) ==
    Cardinality({i \in ret.value.kept :
                    Raw[i].playerId = a /\ ret.value.receiver[i] = b})

\* C6: connections are undirected: pos_min <= pos_max in every row, one row
\* per unordered pair, pass_count the retained passes of both directions.
C6_Undirected ==
    ret.op \in NetworkOps =>
        /\ \A c \in ret.value.connections :
             /\ c.pos_min <= c.pos_max
             /\ c.pass_count = PassesBetween(c.pos_min, c.pos_max)
                                 + PassesBetween(c.pos_max, c.pos_min)
        /\ \A c, d \in ret.value.connections :
             {c.pos_min, c.pos_max} = {d.pos_min, d.pos_max} => c = d

\* an edge that sums passes of both directions
C6_Witness ==
    /\ ret.op \in NetworkOps
    /\ \E c \in ret.value.connections :
         /\ PassesBetween(c.pos_min, c.pos_max) > 0
         /\ PassesBetween(c.pos_max, c.pos_min) > 0

InferredBetween(a, b) ==
    Cardinality({i \in DOMAIN ret.value.receiver :
                    {Raw[i].playerId, ret.value.receiver[i]} = {a, b}})

HasEdge(a, b) ==
    \E c \in ret.value.connections : c.pos_min = a /\ c.pos_max = b

Ids == {Raw[i].playerId : i \in DOMAIN Raw} \ {None}

\* C7 as stated: the connections are exactly the pairs whose aggregated
\* pass_count reaches min_passes, and with min_passes = 0 every pair that
\* has an inferred pass appears.
C7_EveryInferredPair ==
    ret.op \in NetworkOps =>
        /\ \A c \in ret.value.connections : c.pass_count >= ret.min_passes
        /\ ret.min_passes = 0 =>
             \A a, b \in Ids :
                 (a < b /\ InferredBetween(a, b) > 0) => HasEdge(a, b)

\* C7 amended: the connections are exactly the pairs of starting-XI players
\* of the team whose aggregated pass_count is at least one and at least
\* min_passes; with min_passes = 0 every pair of starting-XI players that has
\* an inferred pass appears.
C7_EdgeFilter ==
    ret.op \in NetworkOps =>
        /\ \A a, b \in Ids :
             a < b =>
                 (HasEdge(a, b) <=>
                     /\ {a, b} \subseteq StartingIds(ret.team_id)
                     /\ InferredBetween(a, b) >= 1
                     /\ InferredBetween(a, b) >= ret.min_passes)
        /\ \A c \in ret.value.connections :
             /\ c.pos_min \in Ids /\ c.pos_max \in Ids
             /\ c.pos_min < c.pos_max
             /\ c.pass_count = InferredBetween(c.pos_min, c.pos_max)

\* the default threshold met exactly, and a pair below it left out
C7_Witness ==
    /\ ret.op = "get_pass_connections"
    /\ ret.min_passes = 3
    /\ \E c \in ret.value.connections : c.pass_count = 3

NoLaterSameTeam(i) == \A j \in (i + 1)..Len(Raw) : Raw[j].teamId # Raw[i].teamId

Chain ==
    << Plain(HomeId, 1, "Pass", "Successful"),
       Plain(HomeId, 2, "Pass", "Successful"),
       Plain(AwayId, 4, "Tackle", "Successful") >>

\* C8: a pass with no later row of its team has no receiver and is in no
\* edge, yet the team's raw pass total counts it; in the chain
\* [Pass(1, A), Pass(1, B), Tackle(2, X)] the receivers are B and none.
C8_NoReceiver ==
    /\ ret.op \in NetworkOps \cup {"get_passes"} =>
         /\ \A i \in DOMAIN ret.value.receiver :
              NoLaterSameTeam(i) => ret.value.receiver[i] = None
         /\ (Raw = Chain /\ ret.team_id = HomeId) =>
              ret.value.receiver = (1 :> 2) @@ (2 :> None)
    /\ ret.op \in NetworkOps =>
         /\ \A i \in ret.value.kept : ~NoLaterSameTeam(i)
         /\ \A c \in ret.value.connections :
              c.pass_count <= Cardinality({i \in DOMAIN Raw :
                                              /\ Raw[i].teamId = ret.team_id
                                              /\ Raw[i].type = "Pass"
                                              /\ ~NoLaterSameTeam(i)})
    /\ (ret.op = "aggregate_team_stats" /\ ~ret.value.raised) =>
         ret.value.passes =
             Cardinality({i \in DOMAIN Raw : /\ Raw[i].teamId = ret.team_id
                                             /\ Raw[i].type = "Pass"})

\* the chain, aggregated: the last pass is counted though it has no receiver
C8_Witness ==
    /\ Raw = Chain
    /\ ret.op = "aggregate_team_stats"
    /\ ret.team_id = HomeId
    /\ ret.value.passes = 2

\* the chain in the pass network: one edge, from the first pass only
C8_WitnessNetwork ==
    /\ Raw = Chain
    /\ ret.op = "get_pass_connections"
    /\ ret.team_id = HomeId
    /\ ret.min_passes = 0
    /\ ret.value.kept = {1}

(***************************************************************************)
(* Properties of the statistics (SpecStats).                               *)
(***************************************************************************)
RawOf(team_id) == {i \in DOMAIN Raw : Raw[i].teamId = team_id}
RawCount(team_id, types) ==
    Cardinality({i \in RawOf(team_id) : Raw[i].type \in types})
RawCompleted(team_id) ==
    Cardinality({i \in RawOf(team_id) :
                    Raw[i].type = "Pass" /\ Raw[i].outcomeType = "Successful"})
HasQualifier(i, name) ==
    \E k \in DOMAIN Raw[i].qualifiers : Raw[i].qualifiers[k].type = name

ZeroSum(possession, h, a) ==
    LET home == possession.home
        away == possession.away
    IN /\ home.den > 0 /\ away.den > 0
       /\ home.num * away.den + away.num * home.den = 100 * home.den * away.den
       /\ h + a > 0 => home.num * (h + a) = 100 * h * home.den
       /\ (~match_centre.present \/ Raw = <<>> \/ h + a = 0) =>
              /\ home.num = 50 * home.den
              /\ away.num = 50 * away.den

\* C3: possession is zero-sum: home + away = 100 with
\* home = 100 * home events / (home events + away events), and exactly 50 / 50
\* when the table is missing or empty or no event is of either team.  The
\* shares are exact fractions (the code's floats agree up to rounding).
C3_PossessionZeroSum ==
    LET h == Cardinality(RawOf(HomeId))
        a == Cardinality(RawOf(AwayId))
    IN /\ ret.op = "calculate_possession" => ZeroSum(ret.value, h, a)
       /\ (ret.op = "get_complete_match_summary" /\ ~ret.value.raised) =>
              ZeroSum(ret.value.possession, h, a)

\* an uneven split in a table that also holds rows of a third team
C3_Witness ==
    /\ ret.op = "calculate_possession"
    /\ Cardinality(RawOf(HomeId)) = 1
    /\ Cardinality(RawOf(AwayId)) = 2
    /\ RawOf(OtherId) # {}
    /\ ret.value.home.num * 3 = 100 * ret.value.home.den

\* C4: pass accuracy is within 0..100, equals 100 * completed / total when
\* the team has passes and is 0 when it has none, for StatsAggregator (in
\* tenths of a percent) and for TeamProcessor (as a fraction).
C4_PassAccuracy ==
    /\ (ret.op = "aggregate_team_stats" /\ ~ret.value.raised) =>
         LET total == RawCount(ret.team_id, {"Pass"})
             accuracy == ret.value.pass_accuracy
         IN /\ 0 <= accuracy /\ accuracy <= 1000
            /\ total > 0 => accuracy * total = 1000 * RawCompleted(ret.team_id)
            /\ total = 0 => accuracy = 0
    /\ (ret.op = "calculate_passing_stats" /\ DOMAIN ret.value # {}) =>
         LET total == RawCount(ret.team_id, {"Pass"})
             accuracy == ret.value.pass_accuracy
         IN /\ 0 <= accuracy.num /\ accuracy.num <= 100 * accuracy.den
            /\ total > 0 =>
                 accuracy.num * total
                     = 100 * RawCompleted(ret.team_id) * accuracy.den
            /\ total = 0 => accuracy.num = 0

\* C5: a team's goals are its Goal events without those flagged own goal;
\* a Goal with the OwnGoal qualifier is flagged, is not a goal of its team
\* and is not a goal of the other team either.
C5_OwnGoalExcluded ==
    /\ (ret.op = "aggregate_team_stats" /\ ~ret.value.raised) =>
         ret.value.goals =
             Cardinality({i \in RawOf(ret.team_id) :
                             Raw[i].type = "Goal" /\ ~HasQualifier(i, "OwnGoal")})
    /\ pc = "ready" =>
         \A i \in DOMAIN events_df.rows :
             events_df.rows[i].is_own_goal <=> HasQualifier(i, "OwnGoal")

\* the other team's tally while the table holds an own goal of the home team
C5_Witness ==
    /\ ret.op = "aggregate_team_stats"
    /\ ret.team_id = AwayId
    /\ \E i \in RawOf(HomeId) : Raw[i].type = "Goal" /\ HasQualifier(i, "OwnGoal")
    /\ \E i \in RawOf(AwayId) : Raw[i].type = "Goal"
    /\ ret.value.goals = 1

(***************************************************************************)
(* Properties of the coordinates (SpecCoord).                              *)
(***************************************************************************)
Times(raw, hundredths) == IF raw = NaN THEN NaN ELSE raw * hundredths

ScaledRow(row, raw) ==
    /\ row.x = Times(raw.x, 105) /\ row.endX = Times(raw.endX, 105)
    /\ row.y = Times(raw.y, 68) /\ row.endY = Times(raw.endY, 68)
    /\ \A v \in {row.x, row.endX} : v = NaN \/ (0 <= v /\ v <= 10500)
    /\ \A v \in {row.y, row.endY} : v = NaN \/ (0 <= v /\ v <= 6800)

\* C2: after construction every stored x and endX is the raw value times 1.05
\* and every stored y and endY the raw value times 0.68, within 0..105 by
\* 0..68, and this stays so whatever operations follow; the frames they
\* return carry the same coordinates.
C2_ScaledOnce ==
    /\ (pc = "ready" /\ ~events_df.isNone) =>
         /\ Len(events_df.rows) = Len(Raw)
         /\ \A k \in DOMAIN Raw : ScaledRow(events_df.rows[k], Raw[k])
    /\ ret.op = "get_events_dataframe" =>
         \A k \in DOMAIN Raw : ScaledRow(ret.value.rows[k], Raw[k])
    /\ ret.op = "get_passes" =>
         \A k \in DOMAIN ret.value.frame : ScaledRow(ret.value.frame[k], Raw[k])
    /\ ret.op = "get_shots" =>
         \A k \in DOMAIN ret.value : ScaledRow(ret.value[k], Raw[k])
    /\ ret.op = "get_pass_network_data" =>
         \A p \in DOMAIN ret.value.avg_positions :
             LET at == ret.value.avg_positions[p]
             IN /\ at.x.num = NaN \/ at.x.num <= 10500 * at.x.den
                /\ at.y.num = NaN \/ at.y.num <= 6800 * at.y.den

\* an operation has returned over a table that holds the far corner
C2_Witness ==
    /\ ret.op = "get_pass_network_data"
    /\ ret.team_id = HomeId
    /\ \E k \in DOMAIN events_df.rows :
         /\ Raw[k].x = 100 /\ events_df.rows[k].x = 10500
         /\ Raw[k].y = 100 /\ events_df.rows[k].y = 6800
         /\ events_df.rows[k].playerId \in DOMAIN ret.value.avg_positions

(***************************************************************************)
(* Properties of the grids (SpecZone).                                     *)
(***************************************************************************)
\* touches of a team whose scaled position lies in [x0, x1) by [y0, y1)
TouchesIn(team_id, x0, x1, y0, y1) ==
    Cardinality({k \in RawOf(team_id) :
                    /\ Raw[k].x # NaN /\ Raw[k].y # NaN
                    /\ x0 <= Raw[k].x * 105 /\ Raw[k].x * 105 < x1
                    /\ y0 <= Raw[k].y * 68 /\ Raw[k].y * 68 < y1})

Dominance(h, a) ==
    IF 5 * h > 3 * (h + a) THEN "Home"
    ELSE IF 5 * h < 2 * (h + a) THEN "Away" ELSE "Contested"

\* C9: a cell with h home and a away touches, h + a > 0, is Home when
\* h / (h + a) > 0.6, Away when h / (h + a) < 0.4 and Contested otherwise:
\* 7 / 3 is Home, 5 / 5 Contested, and the shares 0.6 and 0.4 are Contested.
C9_DominanceThresholds ==
    ret.op = "create_pitch_control_map" =>
        \A c \in DOMAIN ret.value :
            LET h == TouchesIn(HomeId, 1750 * c[1], 1750 * (c[1] + 1),
                               1360 * c[2], 1360 * (c[2] + 1))
                a == TouchesIn(AwayId, 1750 * c[1], 1750 * (c[1] + 1),
                               1360 * c[2], 1360 * (c[2] + 1))
                label == ret.value[c].patch
            IN h + a > 0 =>
                 /\ label = Dominance(h, a)
                 /\ (h = 7 /\ a = 3) => label = "Home"
                 /\ (h = 5 /\ a = 5) => label = "Contested"
                 /\ (5 * h = 3 * (h + a) \/ 5 * h = 2 * (h + a)) =>
                        label = "Contested"
                 /\ (h = 3 /\ a = 7) => label = "Away"

\* seven home touches against three in one cell
C9_Witness ==
    /\ ret.op = "create_pitch_control_map"
    /\ ret.value[<<0, 0>>].home_cnt = 7
    /\ ret.value[<<0, 0>>].away_cnt = 3
    /\ ret.value[<<0, 0>>].patch = "Home"

\* a share of exactly 0.6
C9_WitnessBoundary ==
    /\ ret.op = "create_pitch_control_map"
    /\ ret.value[<<0, 0>>].home_cnt = 3
    /\ ret.value[<<0, 0>>].away_cnt = 2
    /\ ret.value[<<0, 0>>].patch = "Contested"

CountFields(stats) == DOMAIN stats \ {"raised"}

\* C11: aggregate_team_stats for a team without events in the table, the
\* empty table included, raises nothing and returns every statistic as 0.
C11_EmptyPartitionZeros ==
    (ret.op = "aggregate_team_stats" /\ RawOf(ret.team_id) = {}) =>
        /\ ~ret.value.raised
        /\ \A name \in CountFields(ret.value) : ret.value[name] = 0

\* C11 for a table that has rows, none of them of the team
C11_ZerosInNonEmptyTable ==
    (ret.op = "aggregate_team_stats" /\ RawOf(ret.team_id) = {}
        /\ Raw # <<>>) =>
        /\ ~ret.value.raised
        /\ \A name \in CountFields(ret.value) : ret.value[name] = 0

\* the statistics of the away team in a table of home events
C11_Witness ==
    /\ ret.op = "aggregate_team_stats"
    /\ ret.team_id = AwayId
    /\ RawOf(AwayId) = {} /\ RawOf(HomeId) # {}
    /\ ~ret.value.raised
    /\ ret.value.shots = 0 /\ ret.value.xg = 0 /\ ret.value.pass_accuracy = 0

(***************************************************************************)
(* Properties of the normalisation (SpecNorm).                             *)
(***************************************************************************)
IsList(i) == Raw[i].qualifiers \notin {MissingQualifiers, NotAList}

\* the event's qualifier list has a well-formed entry of one of the names
Carries(i, names) ==
    /\ IsList(i)
    /\ \E k \in DOMAIN Raw[i].qualifiers : Raw[i].qualifiers[k].type \in names

ShotFamily == {"Shot", "MissedShots", "SavedShot", "ShotOnPost", "Goal"}
SetPieces == {"FreeKick", "Corner", "ThrowIn", "Penalty"}

\* C12: every shot of the team is counted in exactly one of set_piece_shots
\* and open_play_shots, in set_piece_shots exactly when its qualifiers hold
\* FreeKick, Corner, ThrowIn or Penalty; the two counts add up to shots.
C12_SetPieceOrOpenPlay ==
    (ret.op = "aggregate_team_stats" /\ ~ret.value.raised) =>
        LET shots == {i \in RawOf(ret.team_id) : Raw[i].type \in ShotFamily}
            set_piece == {i \in shots : Carries(i, SetPieces)}
        IN /\ ret.value.set_piece_shots = Cardinality(set_piece)
           /\ ret.value.open_play_shots = Cardinality(shots \ set_piece)
           /\ ret.value.open_play_shots + ret.value.set_piece_shots
                  = ret.value.shots

\* a penalty and an open-play shot of the same team
C12_Witness ==
    /\ ret.op = "aggregate_team_stats"
    /\ ret.team_id = AwayId
    /\ ~ret.value.raised
    /\ \E i \in RawOf(AwayId) : Carries(i, {"Penalty"})
    /\ ret.value.set_piece_shots = 1
    /\ ret.value.open_play_shots = 1

PeriodBase == [p \in 1..5 |->
                  IF p = 1 THEN 0 ELSE IF p = 2 THEN 45
                  ELSE IF p = 3 THEN 90 ELSE IF p = 4 THEN 105 ELSE 120]

\* C13: an event of period p in 1..5 with a minute and a second has the
\* cumulative minute period_base[p] + minute + second / 60 (here in seconds);
\* minute 1 of period 2 is cumulative minute 46.
C13_CumulativeClock ==
    (pc = "ready" /\ ~events_df.isNone) =>
        \A k \in DOMAIN events_df.rows :
            LET e == Raw[k]
                at == events_df.rows[k].cumulative_mins
            IN (e.period \in 1..5 /\ e.minute # NaN /\ e.second # NaN) =>
                 /\ at = 60 * (PeriodBase[e.period] + e.minute) + e.second
                 /\ (e.period = 2 /\ e.minute = 1 /\ e.second = 0) =>
                        at = 46 * 60

\* minute 1 of the second half and a row of period 5 in one table
C13_Witness ==
    /\ pc = "ready"
    /\ \E k \in DOMAIN events_df.rows :
         /\ Raw[k].period = 2 /\ Raw[k].minute = 1 /\ Raw[k].second = 0
         /\ events_df.rows[k].cumulative_mins = 2760
    /\ \E k \in DOMAIN events_df.rows :
         /\ Raw[k].period = 5
         /\ events_df.rows[k].cumulative_mins = 7259

\* the names of the well-formed entries of the event's qualifier list
NamesOf(i) ==
    {Raw[i].qualifiers[k].type : k \in DOMAIN Raw[i].qualifiers} \ {""}

LastOf(i, name) ==
    LET last == CHOOSE k \in DOMAIN Raw[i].qualifiers :
                    /\ Raw[i].qualifiers[k].type = name
                    /\ \A j \in DOMAIN Raw[i].qualifiers :
                         Raw[i].qualifiers[j].type = name => j <= k
    IN Raw[i].qualifiers[last].value

\* C14: the decoded map of a qualifier list has exactly the type names of
\* the list, each with the value of the last qualifier of that type in list
\* order, and with true when that qualifier has no value.
C14_LastWriteWins ==
    (pc = "ready" /\ ~events_df.isNone) =>
        \A i \in DOMAIN events_df.rows :
            IsList(i) =>
                LET decoded == events_df.rows[i].qualifiers_dict
                IN /\ {decoded[k].type : k \in DOMAIN decoded} = NamesOf(i)
                   /\ Cardinality(DOMAIN decoded) = Cardinality(NamesOf(i))
                   /\ \A k \in DOMAIN decoded :
                        decoded[k].value =
                            IF LastOf(i, decoded[k].type) = Absent
                            THEN "True"
                            ELSE LastOf(i, decoded[k].type)

\* a type that occurs twice in one list, and a qualifier without value
C14_Witness ==
    /\ pc = "ready"
    /\ \E i \in DOMAIN events_df.rows :
         /\ IsList(i)
         /\ \E j, k \in DOMAIN Raw[i].qualifiers :
              /\ j < k
              /\ Raw[i].qualifiers[j].type = Raw[i].qualifiers[k].type
              /\ Raw[i].qualifiers[j].value # Raw[i].qualifiers[k].value
         /\ InDict(events_df.rows[i].qualifiers_dict, "Zone")
         /\ DictGet(events_df.rows[i].qualifiers_dict, "Zone") = "Left"
    /\ \E i \in DOMAIN events_df.rows :
         /\ InDict(events_df.rows[i].qualifiers_dict, "Corner")
         /\ DictGet(events_df.rows[i].qualifiers_dict, "Corner") = "True"

Constructed == pc # "new" /\ match_centre.success /\ match_centre.present

\* the event's qualifiers are no list, hold an entry that is no well-formed
\* qualifier, or hold an xG whose value is no number
Malformed(i) ==
    \/ ~IsList(i)
    \/ \E k \in DOMAIN Raw[i].qualifiers :
         \/ Raw[i].qualifiers[k].type = ""
         \/ /\ Raw[i].qualifiers[k].type = "xG"
            /\ Raw[i].qualifiers[k].value \notin {"0.25", "0.5", Absent}

\* every coordinate and the qualifiers field occur in some event of the list
AllColumns ==
    /\ \E i \in DOMAIN Raw : Raw[i].qualifiers # MissingQualifiers
    /\ \E i \in DOMAIN Raw : Raw[i].x # NaN
    /\ \E i \in DOMAIN Raw : Raw[i].y # NaN
    /\ \E i \in DOMAIN Raw : Raw[i].endX # NaN
    /\ \E i \in DOMAIN Raw : Raw[i].endY # NaN

\* C15: whatever events have malformed qualifiers, normalisation does not
\* raise: such an event gets the empty qualifier map, no flag and xg 0, and
\* every event of the input has its row.
C15_FailureIsolation ==
    (Constructed /\ AllColumns) =>
        /\ pc = "ready"
        /\ Len(events_df.rows) = Len(Raw)
        /\ \A i \in DOMAIN events_df.rows :
             Malformed(i) =>
                 /\ events_df.rows[i].qualifiers_dict = <<>>
                 /\ events_df.rows[i].xg = 0
                 /\ ~events_df.rows[i].is_goal

\* C15 without the xG values that are no numbers: qualifiers that are no
\* list give the empty map, entries that are no qualifiers are skipped
C15_NonListIsolated ==
    (Constructed /\ AllColumns
        /\ \A i \in DOMAIN Raw :
             IsList(i) => \A k \in DOMAIN Raw[i].qualifiers :
                              Raw[i].qualifiers[k].value # "abc") =>
        /\ pc = "ready"
        /\ Len(events_df.rows) = Len(Raw)
        /\ \A i \in DOMAIN events_df.rows :
             /\ ~IsList(i) => events_df.rows[i].qualifiers_dict = <<>>
             /\ IsList(i) =>
                  Len(events_df.rows[i].qualifiers_dict)
                      = Cardinality(NamesOf(i))

\* C16: normalisation of a non-empty list does not raise when coordinates
\* or the qualifiers field are absent from some or from all events; a row
\* lacking a coordinate has no distance and is not progressive.
C16_MissingFieldDefaults ==
    (Constructed /\ Raw # <<>>
        /\ \A i \in DOMAIN Raw : ~Carries(i, {"xG"})) =>
        /\ pc = "ready"
        /\ \A i \in DOMAIN events_df.rows :
             NaN \in {Raw[i].x, Raw[i].y, Raw[i].endX, Raw[i].endY} =>
                 /\ events_df.rows[i].distance_sq = NaN
                 /\ ~events_df.rows[i].is_progressive

\* C16 for fields absent from some events only
C16_DefaultsWhenSomePresent ==
    (Constructed /\ Raw # <<>> /\ AllColumns
        /\ \A i \in DOMAIN Raw : ~Carries(i, {"xG"})) =>
        /\ pc = "ready"
        /\ \A i \in DOMAIN events_df.rows :
             NaN \in {Raw[i].x, Raw[i].y, Raw[i].endX, Raw[i].endY} =>
                 /\ events_df.rows[i].distance_sq = NaN
                 /\ ~events_df.rows[i].is_progressive

\* C19: the table has one row per input event, row k made of input event
\* k, and receivers are inferred along this order.
C19_OneRowPerEventInOrder ==
    /\ (pc = "ready" /\ ~events_df.isNone) =>
         /\ Len(events_df.rows) = Len(Raw)
         /\ \A k \in DOMAIN Raw :
              /\ events_df.rows[k].teamId = Raw[k].teamId
              /\ events_df.rows[k].playerId = Raw[k].playerId
              /\ events_df.rows[k].type_display = Raw[k].type
              /\ events_df.rows[k].x = Times(Raw[k].x, 105)
    /\ ret.op = "get_events_dataframe" =>
         /\ Len(ret.value.rows) = Len(Raw)
         /\ \A k \in DOMAIN Raw :
              /\ ret.value.rows[k].playerId = Raw[k].playerId
              /\ ret.value.rows[k].type_display = Raw[k].type
    /\ ret.op = "get_passes" =>
         \A i \in DOMAIN ret.value.receiver :
             LET later == {j \in DOMAIN Raw :
                              /\ j > i
                              /\ Raw[j].teamId = Raw[i].teamId
                              /\ Raw[j].type \in {"Pass", "TakeOn", "Shot",
                                                  "Carry"}}
             IN /\ Raw[i].type = "Pass"
                /\ ret.value.receiver[i] =
                       IF later = {} THEN None
                       ELSE Raw[CHOOSE j \in later :
                                    \A o \in later : j <= o].playerId

\* three different events in a table, and a receiver found behind a pass
C19_Witness ==
    /\ ret.op = "get_passes"
    /\ Len(events_df.rows) = 3
    /\ Raw[1].type = "Pass" /\ Raw[2].type = "SavedShot" /\ Raw[3].type = "Pass"
    /\ Raw[1].playerId # Raw[3].playerId
    /\ 1 \in DOMAIN ret.value.receiver
    /\ ret.value.receiver[1] = Raw[3].playerId

(***************************************************************************)
(* Properties of the match summary (SpecStats).                            *)
(***************************************************************************)
\* C17: without an events array get_complete_match_summary returns a
\* summary marked success = false that holds no possession, event_stats or
\* team_stats.
C17_FatalCondition ==
    (ret.op = "get_complete_match_summary" /\ ~match_centre.present) =>
        /\ ~ret.value.raised
        /\ ~ret.value.success
        /\ DOMAIN ret.value
               \cap {"possession", "event_stats", "team_stats"} = {}

\* what the summary is without an events array after a successful extraction
C17_SummaryWithoutEvents ==
    (ret.op = "get_complete_match_summary" /\ ~match_centre.present
        /\ match_centre.success) =>
        /\ ~ret.value.raised
        /\ ret.value.success
        /\ ret.value.possession = [home |-> Fifty, away |-> Fifty]
        /\ ret.value.event_stats = EmptyDict
        /\ ret.value.team_stats.home.passing = EmptyDict

(***************************************************************************)
(* Properties of the read-only queries (SpecFrame).                        *)
(***************************************************************************)
\* the table as it is right after construction
Fresh == EventProcessor_init(match_centre)

\* what the operation of ret returns on the table df
ResultOn(df) ==
    CASE ret.op = "get_passes" ->
            get_passes(df, ret.team_id, ret.successful_only)
      [] ret.op = "get_shots" -> get_shots(df, ret.team_id)
      [] ret.op = "get_defensive_actions" ->
            get_defensive_actions(df, ret.team_id)
      [] ret.op = "get_carries" -> get_carries(df, ret.team_id)
      [] ret.op = "get_events_by_zone" ->
            get_events_by_zone(df, ret.zone, ret.team_id)
      [] ret.op = "get_pass_connections" ->
            get_pass_connections(df, all_players_df, ret.team_id,
                                 ret.min_passes)
      [] ret.op = "get_pass_network_data" ->
            get_pass_network_data(df, all_players_df, ret.team_id,
                                  ret.min_passes)
      [] ret.op = "calculate_player_positions" ->
            calculate_player_positions(df, all_players_df, ret.team_id,
                                       ret.starting_xi_only)
      [] ret.op = "calculate_possession" ->
            calculate_possession(df, HomeId, AwayId)
      [] ret.op = "calculate_passing_stats" ->
            calculate_passing_stats(df, ret.team_id)
      [] ret.op = "calculate_shooting_stats" ->
            calculate_shooting_stats(df, ret.team_id)
      [] ret.op = "calculate_defensive_stats" ->
            calculate_defensive_stats(df, ret.team_id)
      [] ret.op = "calculate_territorial_stats" ->
            calculate_territorial_stats(df, ret.team_id)
      [] ret.op = "aggregate_team_stats" ->
            aggregate_team_stats(df, ret.team_id)

\* C18: whatever queries and aggregations have been called, the stored
\* table is the one built at construction, and the last call has returned
\* what it returns on that table, that is what its first call returned.
C18_SourceTableNotMutated ==
    pc = "ready" =>
        /\ events_df = Fresh
        /\ ret.op # "none" => ret.value = ResultOn(Fresh)

\* a zone query that keeps one row of two has returned
C18_Witness ==
    /\ pc = "ready"
    /\ ret.op = "get_events_by_zone"
    /\ ret.zone = "attacking_third"
    /\ Len(events_df.rows) = 2
    /\ DOMAIN ret.value = {2}

(***************************************************************************)
(* Properties of the pass network modes (SpecNet).                         *)
(***************************************************************************)
\* the successful passes of the team between a and b, in either direction,
\* with the receiver taken from the table itself
RawInferred(team_id, a, b) ==
    Cardinality({i \in RawOf(team_id) :
                    /\ Raw[i].type = "Pass"
                    /\ Raw[i].outcomeType = "Successful"
                    /\ {Raw[i].playerId,
                        FirstPlayer(i, LAMBDA j : SameTeam(i, j)
                                                    /\ OtherPlayer(i, j))}
                           = {a, b}})

\* C20: a caller that does not ask for the starting XI gets the unrestricted
\* network, in which the passes made or received by the team's non-starting
\* players contribute to the edges.
C20_UnrestrictedMode ==
    /\ (ret.op \in NetworkOps /\ ret.min_passes = 0) =>
          \A a, b \in Ids :
              (/\ a < b
               /\ ~({a, b} \subseteq StartingIds(ret.team_id))
               /\ RawInferred(ret.team_id, a, b) > 0) => HasEdge(a, b)
    /\ (ret.op = "create_pass_network_data" /\ ~ret.starting_xi_only) =>
          \A a, b \in Ids :
              (a < b /\ RawInferred(ret.team_id, a, b) > 0) => HasEdge(a, b)

\* the only mode there is: every edge joins two starting players
C20_AlwaysStartingXI ==
    /\ ret.op \in NetworkOps =>
          \A c \in ret.value.connections :
              {c.pos_min, c.pos_max} \subseteq StartingIds(ret.team_id)
    /\ ret.op = "create_pass_network_data" => ret.value.connections = {}

(***************************************************************************)
(* Properties of the team statistics (SpecTeam).                           *)
(***************************************************************************)
\* the events of a team that are a shot under either spelling
RawShots(team_id) ==
    {i \in DOMAIN Raw : /\ Raw[i].teamId = team_id
                        /\ Raw[i].type \in {"Shot", "MissedShots", "SavedShot",
                                            "ShotOnPost", "Goal"}}

\* C21: for every table and team, 'shots' of aggregate_team_stats,
\* 'total_shots' of calculate_shooting_stats and the rows of get_shots count
\* the same events: those whose type is 'Shot', MissedShots, SavedShot,
\* ShotOnPost or Goal.
C21_BothShotSpellings ==
    (pc = "ready" /\ Raw # <<>>) =>
        /\ ret.op = "aggregate_team_stats" =>
               ret.value.shots = Cardinality(RawShots(ret.team_id))
        /\ ret.op = "calculate_shooting_stats" =>
               ret.value.total_shots = Cardinality(RawShots(ret.team_id))
        /\ (ret.op = "get_shots" /\ ret.team_id # None) =>
               DOMAIN ret.value = RawShots(ret.team_id)

\* C21, as the code has it: the aggregator counts both spellings, the team
\* processor and the shot query only the events typed 'Shot'.
C21_LiteralShotOnly ==
    (pc = "ready" /\ Raw # <<>>) =>
        LET literal == {i \in RawShots(ret.team_id) : Raw[i].type = "Shot"}
        IN /\ ret.op = "aggregate_team_stats" =>
                  ret.value.shots = Cardinality(RawShots(ret.team_id))
           /\ ret.op = "calculate_shooting_stats" =>
                  ret.value.total_shots = Cardinality(literal)
           /\ (ret.op = "get_shots" /\ ret.team_id # None) =>
                  DOMAIN ret.value = literal

\* the passes of a team, and their displacement along the pitch
RawPasses(team_id) ==
    {i \in DOMAIN Raw : Raw[i].teamId = team_id /\ Raw[i].type = "Pass"}

Displaced(i) == Raw[i].x # NaN /\ Raw[i].endX # NaN

\* C22: calculate_passing_stats counts a pass as forward exactly when its end
\* x minus its origin x is positive and as backward when it is negative; a
\* pass played backwards or square is not counted as forward.
C22_ForwardBySign ==
    (pc = "ready" /\ ret.op = "calculate_passing_stats" /\ Raw # <<>>) =>
        /\ ret.value.forward_passes =
               Cardinality({i \in RawPasses(ret.team_id) :
                               Displaced(i) /\ Raw[i].endX - Raw[i].x > 0})
        /\ "backward_passes" \in DOMAIN ret.value
        /\ ret.value.backward_passes =
               Cardinality({i \in RawPasses(ret.team_id) :
                               Displaced(i) /\ Raw[i].endX - Raw[i].x < 0})

\* C22, as the code has it: a pass is counted as forward when its length is
\* positive, whatever its direction, and backward passes are reported (as
\* zero) only for a team without passes.
C22_ForwardByLength ==
    (pc = "ready" /\ ret.op = "calculate_passing_stats" /\ Raw # <<>>) =>
        /\ ret.value.forward_passes =
               Cardinality({i \in RawPasses(ret.team_id) :
                               /\ Displaced(i)
                               /\ Raw[i].y # NaN /\ Raw[i].endY # NaN
                               /\ <<Raw[i].endX, Raw[i].endY>> #
                                      <<Raw[i].x, Raw[i].y>>})
        /\ "backward_passes" \in DOMAIN ret.value <=>
               RawPasses(ret.team_id) = {}

\* the events of a team of a type
RawTyped(team_id, type) ==
    {i \in DOMAIN Raw : Raw[i].teamId = team_id /\ Raw[i].type = type}

Sections == {"passing", "shooting", "territorial"}

\* C23: when the match has events, get_comprehensive_team_stats and
\* compare_teams complete without raising whichever team has no events, no
\* passes or no shots, and both teams' passing, shooting and territorial
\* mappings have the same statistic names.
C23_EmptyPartitionTeamStats ==
    (pc = "ready" /\ Raw # <<>>) =>
        /\ ret.op = "get_comprehensive_team_stats" =>
               \A c \in Sections :
                   DOMAIN ret.value.home[c] = DOMAIN ret.value.away[c]
        /\ ret.op = "compare_teams" => ~ret.value.raised

\* C23, as the code has it: compare_teams raises exactly when one team has
\* passes and the other has none, or one team has events typed 'Shot' and
\* the other has none.
C23_CompareRaisesOnOneSidedStats ==
    (pc = "ready" /\ Raw # <<>> /\ ret.op = "compare_teams") =>
        (ret.value.raised <=>
            \E type \in {"Pass", "Shot"} :
                (RawTyped(HomeId, type) = {}) # (RawTyped(AwayId, type) = {}))

\* the events of a team, those with an x, and their third of the pitch
RawTeam(team_id) == {i \in DOMAIN Raw : Raw[i].teamId = team_id}
RawLocated(team_id) == {i \in RawTeam(team_id) : Raw[i].x # NaN}
RawThird(team_id, third) ==
    {i \in RawLocated(team_id) :
        CASE third = "defensive_third" -> Raw[i].x * 105 <= 3500
          [] third = "middle_third" ->
                Raw[i].x * 105 > 3500 /\ Raw[i].x * 105 <= 7000
          [] third = "attacking_third" -> Raw[i].x * 105 > 7000}

Thirds == {"defensive_third", "middle_third", "attacking_third"}

ThirdCounts ==
    [defensive_third |-> ret.value.defensive_third_events,
     middle_third |-> ret.value.middle_third_events,
     attacking_third |-> ret.value.attacking_third_events]

\* the sum of the three percentages is 100
PercentagesSumTo100 ==
    LET d == ret.value.defensive_third_pct
        m == ret.value.middle_third_pct
        a == ret.value.attacking_third_pct
    IN /\ d.den = m.den /\ m.den = a.den
       /\ d.num + m.num + a.num = 100 * d.den

Territorial(team_id) ==
    /\ pc = "ready"
    /\ ret.op = "calculate_territorial_stats"
    /\ ret.team_id = team_id
    /\ RawTeam(team_id) # {}

\* C24, as stated: the thirds split at 35 and 70, and for every team with
\* events the three counts sum to the team's event count and the three
\* percentages sum to 100.
C24_ThirdsCoverTeamEvents ==
    \A team_id \in TeamArgs :
        Territorial(team_id) =>
            /\ \A third \in Thirds :
                   ThirdCounts[third] = Cardinality(RawThird(team_id, third))
            /\ ret.value.defensive_third_events
                   + ret.value.middle_third_events
                   + ret.value.attacking_third_events
                 = Cardinality(RawTeam(team_id))
            /\ PercentagesSumTo100

\* C24, amended: the thirds split at 35 and 70 (defensive x <= 35, middle
\* 35 < x <= 70, attacking x > 70), in calculate_territorial_stats and in
\* get_events_by_zone; the three counts sum to the number of team events
\* with a defined x, and the three percentages, taken over all team events,
\* sum to 100 exactly when every team event has a defined x.
C24_ThirdsPartitionLocatedEvents ==
    \A team_id \in TeamArgs :
        /\ Territorial(team_id) =>
               /\ \A third \in Thirds :
                      ThirdCounts[third] =
                          Cardinality(RawThird(team_id, third))
               /\ ret.value.defensive_third_events
                      + ret.value.middle_third_events
                      + ret.value.attacking_third_events
                    = Cardinality(RawLocated(team_id))
               /\ PercentagesSumTo100 <=>
                      RawLocated(team_id) = RawTeam(team_id)
        /\ (/\ pc = "ready" /\ Raw # <<>>
            /\ ret.op = "get_events_by_zone"
            /\ ret.team_id = team_id /\ ret.zone \in Thirds) =>
               DOMAIN ret.value = RawThird(team_id, ret.zone)

\* the thirds of a team with an event in each third and one without x
C24_Witness ==
    /\ Territorial(AwayId)
    /\ ret.value.defensive_third_events = 1
    /\ ret.value.attacking_third_events = 1
    /\ Cardinality(RawTeam(AwayId)) = 3
    /\ RawLocated(AwayId) # RawTeam(AwayId)

\* the statistics of aggregate_team_stats that are counts
CountNames == DOMAIN ret.value \ {"raised", "pass_accuracy", "xg"}

Aggregated ==
    pc = "ready" /\ ret.op = "aggregate_team_stats" /\ ~ret.value.raised

\* C25: for every team and table all counts of aggregate_team_stats are
\* non-negative integers and each sub-count is bounded by its total.
C25_CountsWellFormed ==
    Aggregated =>
        LET stats == ret.value
        IN /\ \A name \in CountNames : stats[name] \in Nat
           /\ stats.goals <= stats.shots_on_target
           /\ stats.shots_on_target <= stats.shots
           /\ stats.passes_completed <= stats.passes
           /\ stats.dribbles_successful <= stats.dribbles
           /\ stats.aerial_duels_won <= stats.aerial_duels
           /\ stats.six_yard_box_shots <= stats.penalty_area_shots
           /\ stats.penalty_area_shots + stats.outside_box_shots <= stats.shots

\* a team with a saved shot in the six-yard box, a shot in the penalty area
\* and an own goal from outside the box
C25_Witness ==
    /\ Aggregated
    /\ ret.team_id = HomeId
    /\ ret.value.shots = 3
    /\ ret.value.shots_on_target = 2
    /\ ret.value.goals = 0
    /\ ret.value.six_yard_box_shots = 1
    /\ ret.value.penalty_area_shots = 2
    /\ ret.value.outside_box_shots = 1

(***************************************************************************)
(* Properties of the xG chart (SpecXg).                                    *)
(***************************************************************************)
\* the step the chart has drawn for row i, whichever team it is of
Step(i) ==
    IF i \in DOMAIN ret.value.home THEN ret.value.home[i]
    ELSE ret.value.away[i]

Charted == DOMAIN ret.value.home \cup DOMAIN ret.value.away

Encoded(i) == shots_df.rows[i].xg # NaN /\ shots_df.rows[i].xg > 0

HasFlag(i, name) ==
    \E k \in DOMAIN shots_df.rows[i].qualifiers_dict :
        shots_df.rows[i].qualifiers_dict[k].type = name

\* C26: a shot with a positive encoded xG is charted with that value; every
\* other shot is charted with the heuristic value, which lies in
\* [0.01, 0.95] and is exactly 0.76 for a shot with the Penalty qualifier.
C26_HeuristicRange ==
    ret.op = "create_cumulative_xg" =>
        \A i \in Charted :
            IF Encoded(i) THEN Step(i) = shots_df.rows[i].xg
            ELSE /\ Step(i) >= 100 /\ Step(i) <= 9500
                 /\ HasFlag(i, "Penalty") => Step(i) = 7600

\* a distant header off target, whose value 0.7 * 0.02 - 0.01 is raised to
\* 0.01, next to a penalty charted with its encoded xG
C26_Witness ==
    /\ ret.op = "create_cumulative_xg"
    /\ Len(shots_df.rows) = 2
    /\ 1 \in Charted /\ ~Encoded(1)
    /\ HasFlag(1, "Head") /\ ~HasFlag(1, "Penalty")
    /\ shots_df.rows[1].outcome_display = "MissedShots"
    /\ Step(1) = 100
    /\ 2 \in Charted /\ HasFlag(2, "Penalty") /\ Step(2) = 12000

(***************************************************************************)
(* Properties of repeated pass-network calls (SpecFrame).                  *)
(***************************************************************************)
\* what the network operation of ret returns when it is the first call made
\* after construction
FirstCall ==
    IF ret.op = "get_pass_connections"
    THEN get_pass_connections(Fresh, all_players_df, ret.team_id,
                              ret.min_passes)
    ELSE get_pass_network_data(Fresh, all_players_df, ret.team_id,
                               ret.min_passes)

SummaryOps == {"get_complete_match_summary", "export_summary_to_dict"}

\* C28: for a match_centre that is absent or has success = false,
\* get_complete_match_summary and export_summary_to_dict do not raise and
\* return a summary with success = false and without teams, possession or
\* statistics.
C28_FailedExtractionReported ==
    (pc = "ready" /\ ret.op \in SummaryOps /\ ~match_centre.success) =>
        /\ ~ret.value.raised
        /\ ~ret.value.success
        /\ DOMAIN ret.value
               \cap {"teams", "possession", "event_stats", "team_stats"} = {}

\* C28, as the code has it: after a failed extraction both operations raise
\* AttributeError, and after a successful one neither does.
C28_FailedExtractionRaises ==
    (pc = "ready" /\ ret.op \in SummaryOps) =>
        IF match_centre.success THEN ~ret.value.raised
        ELSE ret.value = Raised("AttributeError")

(***************************************************************************)
(* Properties of the DataLoader cache (SpecLoader).                        *)
(***************************************************************************)
\* the step is a load that finds the file of its match id and may use it
CachedLoad ==
    /\ ret'.op = "load_whoscored_data"
    /\ ret'.use_cache /\ ret'.match_id \in DOMAIN cache

\* the step is any other load
FreshLoad ==
    /\ ret'.op = "load_whoscored_data"
    /\ ~(ret'.use_cache /\ ret'.match_id \in DOMAIN cache)

SameAnswers ==
    /\ \A name \in LeagueNames :
           get_matches_by_league(data', name) = get_matches_by_league(data, name)
    /\ get_total_matches(data') = get_total_matches(data)

\* the league the step was called for holds exactly one more match
OneMoreMatch ==
    /\ Len(get_matches_by_league(data', ret'.league_name))
           = Len(get_matches_by_league(data, ret'.league_name)) + 1
    /\ \A name \in LeagueNames \ {ret'.league_name} :
           get_matches_by_league(data', name) = get_matches_by_league(data, name)

\* C30: add_match is all-or-nothing: when it returns False (unknown league,
\* missing required field, failed save) the in-memory database is unchanged
\* and get_matches_by_league and get_total_matches return what they returned
\* before; when it returns True the league holds exactly one more match.
C30_AllOrNothing ==
    [][ret'.op = "add_match" =>
           IF ret'.value THEN OneMoreMatch
           ELSE data' = data /\ SameAnswers]_vars

\* as the code has it: the match is appended before the save is tried, so a
\* False from a failed save leaves the match in the in-memory database
C30_FailedSaveKeepsMatch ==
    [][ret'.op = "add_match" =>
           /\ ret'.value => OneMoreMatch /\ database_file' = data'
           /\ ~ret'.value =>
                  \/ data' = data /\ SameAnswers /\ database_file' = database_file
                  \/ /\ get_league_by_name(data, ret'.league_name) # None
                     /\ required_fields \subseteq DOMAIN ret'.match_data
                     /\ OneMoreMatch
                     /\ database_file' # data']_vars

====
